---------------------------- MODULE Spec2Model ----------------------------
(***************************************************************************)
(* A model of the element kernel of the MPM engine: the 8-node and 20-node *)
(* hexahedron elements (hexahedron_element.tcc), the B-spline hexahedron   *)
(* element (hexahedron_bspline_element.tcc) and the persisted particle     *)
(* record tables (hdf5_particle.cc).                                       *)
(*                                                                         *)
(* The state is one element object (its class, and for the B-spline        *)
(* element its connectivity members) and the call being made on it: the    *)
(* member function, its arguments, what it returned, what it wrote to the  *)
(* logger and which matrix computations it carried out.  A call is made    *)
(* when none is recorded (op = "none") and Return hands its result over.   *)
(*                                                                         *)
(* The particle-id list of a cell (cell.h) is modelled next to it: the     *)
(* list, the mutex of the cell and the threads that call add_particle_id,  *)
(* remove_particle_id and clear_particle_ids on that cell.                 *)
(*                                                                         *)
(* Numbers.  The code computes in double.  The model computes in exact     *)
(* rationals <<n, d>> (d > 0, gcd(n, d) = 1).  All local coordinates are   *)
(* drawn from a dyadic grid k / 2^GridBits and all nodal coordinates are   *)
(* small dyadic numbers, for which the double products and sums of the     *)
(* shape-function formulas are exact, so both agree there.                 *)
(* Vectors and matrices are functions on 0..n-1 (matrices by row), so      *)
(* that xi[0], grad_shapefn[n][i] read as xi(0), grad_shapefn(n, i) do in  *)
(* the source.                                                             *)
(***************************************************************************)
EXTENDS Integers, Sequences, FiniteSets, TLC

VARIABLES
  element,              \* the class of the element object ("none": no element)
  nconnectivity_,       \* members of the B-spline element
  nodal_coordinates_,
  node_type_,
  spacing_length_,
  op,                   \* the member function being called ("none": none)
  xi,                   \* its local-coordinate argument
  nodal_coordinates,    \* its nodal-coordinate argument
  particle_size,        \* its particle_size argument (a non-const reference)
  particle_size_after,  \* the caller's particle size when the call is over
  deformation_gradient, \* its deformation_gradient argument
  ret,                  \* what it returned
  console,              \* the error messages it logged
  exception,            \* the exception it threw to its caller, if any
  steps,                \* the matrix computations it carried out, in order
  previous,             \* the call made before this one, where it is kept
  assigned,             \* the last two connectivities assigned, where kept
  particles_,           \* members of the cell: the particle ids in the cell
  cell_mutex_,          \* and its mutex (the thread that holds it)
  callers,              \* the threads that call the cell
  thread,               \* where each thread is in its call on the cell
  cell,                 \* the other members of the cell, and its last call
  locate,               \* the point location being carried out on the cell
  solver                \* the explicit solver: where solve() is, what it did

vars == <<element, nconnectivity_, nodal_coordinates_, node_type_,
          spacing_length_, op, xi, nodal_coordinates, particle_size,
          particle_size_after, deformation_gradient, ret, console, exception,
          steps, previous, assigned, particles_, cell_mutex_, callers,
          thread, cell, locate, solver>>

\* the variables of the particle-id list of the cell
CellVars == <<particles_, cell_mutex_, callers, thread>>

\* the variables of the rest of the program
OtherVars == <<cell, locate, solver>>

\* the variables of the element and of the call made on it
ElementVars == <<element, nconnectivity_, nodal_coordinates_, node_type_,
                 spacing_length_, op, xi, nodal_coordinates, particle_size,
                 particle_size_after, deformation_gradient, ret, console,
                 exception, steps, previous, assigned>>

-----------------------------------------------------------------------------
(* Bounds of the model *)

\* local coordinates are k / 2^GridBits, k \in -2^GridBits .. 2^GridBits
GridBits == 1

\* half side lengths of the axis-aligned boxes are 1/2, 1, ..., MaxHalfSide/2
MaxHalfSide == 3

\* the particles have the global ids 0 .. MaxParticleId
MaxParticleId == 2

-----------------------------------------------------------------------------
(* Exact rational arithmetic standing for the double arithmetic *)

\* A local variable of the source: the value v is computed once and the
\* expression F is evaluated with it.
With(v, F(_)) == CHOOSE r \in {F(a) : a \in {v}} : TRUE
With2(u, v, F(_, _)) == CHOOSE r \in {F(a, b) : a \in {u}, b \in {v}} : TRUE
With3(u, v, w, F(_, _, _)) ==
  CHOOSE r \in {F(a, b, c) : a \in {u}, b \in {v}, c \in {w}} : TRUE

Abs(n) == IF n < 0 THEN -n ELSE n

\* The operations are functions of their operands, so that an operand is
\* evaluated once.
GreatestCommonDivisor[a \in Nat, b \in Nat] ==
  IF b = 0 THEN a ELSE GreatestCommonDivisor[b, a % b]
GCD(a, b) == GreatestCommonDivisor[a, b]

\* the rational n / d in lowest terms, d # 0
LowestTerms[n \in Int, d \in Int, g \in Nat] ==
  IF d < 0 THEN <<(0 - n) \div g, (0 - d) \div g>> ELSE <<n \div g, d \div g>>
Rational[n \in Int, d \in Int] ==
  LowestTerms[n, d, GreatestCommonDivisor[IF n < 0 THEN 0 - n ELSE n,
                                          IF d < 0 THEN 0 - d ELSE d]]
Rat(n, d) == Rational[n, d]

\* the four operations, with the common factors taken out before the
\* numerators and denominators are multiplied
Negative[p \in Int \X Int] == <<0 - p[1], p[2]>>
RNeg(a) == Negative[a]
SumOver[p \in Int \X Int, q \in Int \X Int, g \in Nat] ==
  Rational[p[1] * (q[2] \div g) + q[1] * (p[2] \div g), (p[2] \div g) * q[2]]
Sum[p \in Int \X Int, q \in Int \X Int] ==
  SumOver[p, q, GreatestCommonDivisor[p[2], q[2]]]
RAdd(a, b) == Sum[a, b]
RSub(a, b) == Sum[a, Negative[b]]
ProductOver[p \in Int \X Int, q \in Int \X Int, g1 \in Nat, g2 \in Nat] ==
  <<(p[1] \div g1) * (q[1] \div g2), (p[2] \div g2) * (q[2] \div g1)>>
Product[p \in Int \X Int, q \in Int \X Int] ==
  ProductOver[p, q,
              GreatestCommonDivisor[IF p[1] < 0 THEN 0 - p[1] ELSE p[1], q[2]],
              GreatestCommonDivisor[IF q[1] < 0 THEN 0 - q[1] ELSE q[1], p[2]]]
RMul(a, b) == Product[a, b]
RDiv(a, b) ==
  With(b, LAMBDA q :
    RMul(a, IF q[1] < 0 THEN <<-q[2], -q[1]>> ELSE <<q[2], q[1]>>))

a (+) b == RAdd(a, b)
a (-) b == RSub(a, b)
a ** b  == RMul(a, b)

\* the literals of the source
I(n)    == <<n, 1>>
c0125   == Rat(1, 8)    \* 0.125
c025    == Rat(1, 4)    \* 0.25
c05     == Rat(1, 2)    \* 0.5
c1_12   == Rat(1, 12)   \* (1.0 / 12)

RECURSIVE Pow2(_)
Pow2(n) == IF n = 0 THEN 1 ELSE 2 * Pow2(n - 1)

\* the sum of f[k] over k \in lo..hi (exact, so in any order)
RECURSIVE RSum(_, _, _)
RSum(f, lo, hi) ==
  With3(f, lo, hi, LAMBDA g, a, b :
    CASE a > b -> I(0)
      [] a = b -> g[a]
      [] OTHER -> RSum(g, a, (a + b) \div 2) (+) RSum(g, (a + b) \div 2 + 1, b))

-----------------------------------------------------------------------------
(* Vectors and matrices (Eigen) *)

\* the evaluation of an Eigen expression into a vector or matrix object:
\* the entries are computed once, when the object is made
Eval(v) == CHOOSE r \in {v} : r = r

\* a vector or a list of rows written as a tuple, indexed from 0
Vec(s) == With(s, LAMBDA t : Eval([k \in 0 .. Len(t) - 1 |-> t[k + 1]]))

\* a matrix written as a tuple of rows
Mat(s) == With(s, LAMBDA t : Eval([k \in 0 .. Len(t) - 1 |-> Vec(t[k + 1])]))

Rows(M) == Cardinality(DOMAIN M)
Cols(M) == IF Rows(M) = 0 THEN 0 ELSE Cardinality(DOMAIN M[0])

\* Eigen::Matrix<double, r, c>::Zero()
Zero(r, c) == Eval([i \in 0 .. r - 1 |-> [j \in 0 .. c - 1 |-> I(0)]])

RLess(a, b) == With2(a, b, LAMBDA p, q : p[1] * q[2] < q[1] * p[2])

VAdd(u0, v0) ==
  With2(u0, v0, LAMBDA u, v : Eval([j \in DOMAIN u |-> u[j] (+) v[j]]))
VSub(u0, v0) ==
  With2(u0, v0, LAMBDA u, v : Eval([j \in DOMAIN u |-> u[j] (-) v[j]]))

\* u.dot(v) and u.cross(v) of 3-vectors
Dot(u0, v0) ==
  With2(u0, v0, LAMBDA u, v :
    (u[0] ** v[0]) (+) (u[1] ** v[1]) (+) (u[2] ** v[2]))
Cross(u0, v0) ==
  With2(u0, v0, LAMBDA u, v :
    Vec(<<(u[1] ** v[2]) (-) (u[2] ** v[1]),
          (u[2] ** v[0]) (-) (u[0] ** v[2]),
          (u[0] ** v[1]) (-) (u[1] ** v[0])>>))

\* A.transpose() * B, for A and B with the same number of rows
TransposeTimes(A0, B0) ==
  With2(A0, B0, LAMBDA A, B :
    Eval([i \in 0 .. Cols(A) - 1 |-> [j \in 0 .. Cols(B) - 1 |->
       RSum([n \in 0 .. Rows(A) - 1 |-> A[n][i] ** B[n][j]], 0, Rows(A) - 1)]]))

\* A * B, for A with as many columns as B has rows
Times(A0, B0) ==
  With2(A0, B0, LAMBDA A, B :
    Eval([i \in 0 .. Rows(A) - 1 |-> [j \in 0 .. Cols(B) - 1 |->
       RSum([k \in 0 .. Rows(B) - 1 |-> A[i][k] ** B[k][j]], 0, Rows(B) - 1)]]))

\* A.transpose()
Transpose(A0) ==
  With(A0, LAMBDA A :
    Eval([j \in 0 .. Cols(A) - 1 |-> [i \in 0 .. Rows(A) - 1 |-> A[i][j]]]))

\* A + B
MAdd(A0, B0) ==
  With2(A0, B0, LAMBDA A, B :
    Eval([i \in DOMAIN A |-> [j \in DOMAIN A[i] |-> A[i][j] (+) B[i][j]]]))

\* the determinant and the cofactor (i, j) of a 3x3 matrix
Det3(M) ==
  (M[0][0] ** ((M[1][1] ** M[2][2]) (-) (M[1][2] ** M[2][1])))
    (-) (M[0][1] ** ((M[1][0] ** M[2][2]) (-) (M[1][2] ** M[2][0])))
    (+) (M[0][2] ** ((M[1][0] ** M[2][1]) (-) (M[1][1] ** M[2][0])))

Cofactor3(M, i, j) ==
  LET r1 == (i + 1) % 3  r2 == (i + 2) % 3
      k1 == (j + 1) % 3  k2 == (j + 2) % 3
  IN  (M[r1][k1] ** M[r2][k2]) (-) (M[r1][k2] ** M[r2][k1])

\* an entry that is infinite or not a number
NonFinite == <<1, 0>>

\* the r x c matrix with no finite entry
AllNonFinite(r, c) == Eval([i \in 0 .. r - 1 |-> [j \in 0 .. c - 1 |-> NonFinite]])

IsFinite(M) == \A i \in DOMAIN M : \A j \in DOMAIN M[i] : M[i][j] # NonFinite

\* M.inverse() of a 3x3 matrix: the cofactors times 1 / determinant.  With a
\* zero determinant 1 / determinant is infinite and every entry of the result
\* is infinite or not a number.
Inverse3(M0) ==
  With(M0, LAMBDA M : With(Det3(M), LAMBDA det :
    IF det = I(0) THEN AllNonFinite(3, 3)
    ELSE Eval([i \in 0 .. 2 |-> [j \in 0 .. 2 |->
                 RDiv(Cofactor3(M, j, i), det)]])))

\* A * B where B may hold non-finite entries: all of B's entries are then
\* non-finite (see Inverse3), and so is every entry of the product
TimesInverse(A0, B0) ==
  With2(A0, B0, LAMBDA A, B :
    IF IsFinite(B) THEN Times(A, B) ELSE AllNonFinite(Rows(A), Cols(B)))

-----------------------------------------------------------------------------
(* HexahedronElement<3, 8> *)

shapefn8(x) ==
  [n \in 0 .. 7 |->
     CASE n = 0 -> c0125 ** (I(1) (-) x[0]) ** (I(1) (-) x[1]) ** (I(1) (-) x[2])
       [] n = 1 -> c0125 ** (I(1) (+) x[0]) ** (I(1) (-) x[1]) ** (I(1) (-) x[2])
       [] n = 2 -> c0125 ** (I(1) (+) x[0]) ** (I(1) (+) x[1]) ** (I(1) (-) x[2])
       [] n = 3 -> c0125 ** (I(1) (-) x[0]) ** (I(1) (+) x[1]) ** (I(1) (-) x[2])
       [] n = 4 -> c0125 ** (I(1) (-) x[0]) ** (I(1) (-) x[1]) ** (I(1) (+) x[2])
       [] n = 5 -> c0125 ** (I(1) (+) x[0]) ** (I(1) (-) x[1]) ** (I(1) (+) x[2])
       [] n = 6 -> c0125 ** (I(1) (+) x[0]) ** (I(1) (+) x[1]) ** (I(1) (+) x[2])
       [] n = 7 -> c0125 ** (I(1) (-) x[0]) ** (I(1) (+) x[1]) ** (I(1) (+) x[2])]

grad_shapefn8(x) ==
  [n \in 0 .. 7 |-> [i \in 0 .. 2 |->
     CASE n = 0 /\ i = 0 -> RNeg(c0125) ** (I(1) (-) x[1]) ** (I(1) (-) x[2])
       [] n = 1 /\ i = 0 -> c0125 ** (I(1) (-) x[1]) ** (I(1) (-) x[2])
       [] n = 2 /\ i = 0 -> c0125 ** (I(1) (+) x[1]) ** (I(1) (-) x[2])
       [] n = 3 /\ i = 0 -> RNeg(c0125) ** (I(1) (+) x[1]) ** (I(1) (-) x[2])
       [] n = 4 /\ i = 0 -> RNeg(c0125) ** (I(1) (-) x[1]) ** (I(1) (+) x[2])
       [] n = 5 /\ i = 0 -> c0125 ** (I(1) (-) x[1]) ** (I(1) (+) x[2])
       [] n = 6 /\ i = 0 -> c0125 ** (I(1) (+) x[1]) ** (I(1) (+) x[2])
       [] n = 7 /\ i = 0 -> RNeg(c0125) ** (I(1) (+) x[1]) ** (I(1) (+) x[2])
       [] n = 0 /\ i = 1 -> RNeg(c0125) ** (I(1) (-) x[0]) ** (I(1) (-) x[2])
       [] n = 1 /\ i = 1 -> RNeg(c0125) ** (I(1) (+) x[0]) ** (I(1) (-) x[2])
       [] n = 2 /\ i = 1 -> c0125 ** (I(1) (+) x[0]) ** (I(1) (-) x[2])
       [] n = 3 /\ i = 1 -> c0125 ** (I(1) (-) x[0]) ** (I(1) (-) x[2])
       [] n = 4 /\ i = 1 -> RNeg(c0125) ** (I(1) (-) x[0]) ** (I(1) (+) x[2])
       [] n = 5 /\ i = 1 -> RNeg(c0125) ** (I(1) (+) x[0]) ** (I(1) (+) x[2])
       [] n = 6 /\ i = 1 -> c0125 ** (I(1) (+) x[0]) ** (I(1) (+) x[2])
       [] n = 7 /\ i = 1 -> c0125 ** (I(1) (-) x[0]) ** (I(1) (+) x[2])
       [] n = 0 /\ i = 2 -> RNeg(c0125) ** (I(1) (-) x[0]) ** (I(1) (-) x[1])
       [] n = 1 /\ i = 2 -> RNeg(c0125) ** (I(1) (+) x[0]) ** (I(1) (-) x[1])
       [] n = 2 /\ i = 2 -> RNeg(c0125) ** (I(1) (+) x[0]) ** (I(1) (+) x[1])
       [] n = 3 /\ i = 2 -> RNeg(c0125) ** (I(1) (-) x[0]) ** (I(1) (+) x[1])
       [] n = 4 /\ i = 2 -> c0125 ** (I(1) (-) x[0]) ** (I(1) (-) x[1])
       [] n = 5 /\ i = 2 -> c0125 ** (I(1) (+) x[0]) ** (I(1) (-) x[1])
       [] n = 6 /\ i = 2 -> c0125 ** (I(1) (+) x[0]) ** (I(1) (+) x[1])
       [] n = 7 /\ i = 2 -> c0125 ** (I(1) (-) x[0]) ** (I(1) (+) x[1])]]

\* unit_cell_coordinates(), 8 rows
unit_cell_coordinates8 ==
  Mat(<< <<I(-1), I(-1), I(-1)>>,
         <<I( 1), I(-1), I(-1)>>,
         <<I( 1), I( 1), I(-1)>>,
         <<I(-1), I( 1), I(-1)>>,
         <<I(-1), I(-1), I( 1)>>,
         <<I( 1), I(-1), I( 1)>>,
         <<I( 1), I( 1), I( 1)>>,
         <<I(-1), I( 1), I( 1)>> >>)

-----------------------------------------------------------------------------
(* HexahedronElement<3, 20> *)

shapefn20(x) ==
  [n \in 0 .. 19 |->
     CASE n = 0 -> RNeg(c0125) ** (I(1) (-) x[0]) ** (I(1) (-) x[1]) ** (I(1) (-) x[2]) ** (((I(2) (+) x[0]) (+) x[1]) (+) x[2])
       [] n = 1 -> RNeg(c0125) ** (I(1) (+) x[0]) ** (I(1) (-) x[1]) ** (I(1) (-) x[2]) ** (((I(2) (-) x[0]) (+) x[1]) (+) x[2])
       [] n = 2 -> RNeg(c0125) ** (I(1) (+) x[0]) ** (I(1) (+) x[1]) ** (I(1) (-) x[2]) ** (((I(2) (-) x[0]) (-) x[1]) (+) x[2])
       [] n = 3 -> RNeg(c0125) ** (I(1) (-) x[0]) ** (I(1) (+) x[1]) ** (I(1) (-) x[2]) ** (((I(2) (+) x[0]) (-) x[1]) (+) x[2])
       [] n = 4 -> RNeg(c0125) ** (I(1) (-) x[0]) ** (I(1) (-) x[1]) ** (I(1) (+) x[2]) ** (((I(2) (+) x[0]) (+) x[1]) (-) x[2])
       [] n = 5 -> RNeg(c0125) ** (I(1) (+) x[0]) ** (I(1) (-) x[1]) ** (I(1) (+) x[2]) ** (((I(2) (-) x[0]) (+) x[1]) (-) x[2])
       [] n = 6 -> RNeg(c0125) ** (I(1) (+) x[0]) ** (I(1) (+) x[1]) ** (I(1) (+) x[2]) ** (((I(2) (-) x[0]) (-) x[1]) (-) x[2])
       [] n = 7 -> RNeg(c0125) ** (I(1) (-) x[0]) ** (I(1) (+) x[1]) ** (I(1) (+) x[2]) ** (((I(2) (+) x[0]) (-) x[1]) (-) x[2])
       [] n = 8 -> c025 ** (I(1) (-) x[0] ** x[0]) ** (I(1) (-) x[1]) ** (I(1) (-) x[2])
       [] n = 11 -> c025 ** (I(1) (-) x[1] ** x[1]) ** (I(1) (+) x[0]) ** (I(1) (-) x[2])
       [] n = 13 -> c025 ** (I(1) (-) x[0] ** x[0]) ** (I(1) (+) x[1]) ** (I(1) (-) x[2])
       [] n = 9 -> c025 ** (I(1) (-) x[1] ** x[1]) ** (I(1) (-) x[0]) ** (I(1) (-) x[2])
       [] n = 10 -> c025 ** (I(1) (-) x[2] ** x[2]) ** (I(1) (-) x[0]) ** (I(1) (-) x[1])
       [] n = 12 -> c025 ** (I(1) (-) x[2] ** x[2]) ** (I(1) (+) x[0]) ** (I(1) (-) x[1])
       [] n = 14 -> c025 ** (I(1) (-) x[2] ** x[2]) ** (I(1) (+) x[0]) ** (I(1) (+) x[1])
       [] n = 15 -> c025 ** (I(1) (-) x[2] ** x[2]) ** (I(1) (-) x[0]) ** (I(1) (+) x[1])
       [] n = 16 -> c025 ** (I(1) (-) x[0] ** x[0]) ** (I(1) (-) x[1]) ** (I(1) (+) x[2])
       [] n = 18 -> c025 ** (I(1) (-) x[1] ** x[1]) ** (I(1) (+) x[0]) ** (I(1) (+) x[2])
       [] n = 19 -> c025 ** (I(1) (-) x[0] ** x[0]) ** (I(1) (+) x[1]) ** (I(1) (+) x[2])
       [] n = 17 -> c025 ** (I(1) (-) x[1] ** x[1]) ** (I(1) (-) x[0]) ** (I(1) (+) x[2])]

grad_shapefn20(x) ==
  [n \in 0 .. 19 |-> [i \in 0 .. 2 |->
     CASE n = 0 /\ i = 0 -> c0125 ** (((I(2) ** x[0] (+) x[1]) (+) x[2]) (+) I(1)) ** (I(1) (-) x[1]) ** (I(1) (-) x[2])
       [] n = 1 /\ i = 0 -> RNeg(c0125) ** (((I(-2) ** x[0] (+) x[1]) (+) x[2]) (+) I(1)) ** (I(1) (-) x[1]) ** (I(1) (-) x[2])
       [] n = 2 /\ i = 0 -> RNeg(c0125) ** (((I(-2) ** x[0] (-) x[1]) (+) x[2]) (+) I(1)) ** (I(1) (+) x[1]) ** (I(1) (-) x[2])
       [] n = 3 /\ i = 0 -> c0125 ** (((I(2) ** x[0] (-) x[1]) (+) x[2]) (+) I(1)) ** (I(1) (+) x[1]) ** (I(1) (-) x[2])
       [] n = 4 /\ i = 0 -> c0125 ** (((I(2) ** x[0] (+) x[1]) (-) x[2]) (+) I(1)) ** (I(1) (-) x[1]) ** (I(1) (+) x[2])
       [] n = 5 /\ i = 0 -> RNeg(c0125) ** (((I(-2) ** x[0] (+) x[1]) (-) x[2]) (+) I(1)) ** (I(1) (-) x[1]) ** (I(1) (+) x[2])
       [] n = 6 /\ i = 0 -> RNeg(c0125) ** (((I(-2) ** x[0] (-) x[1]) (-) x[2]) (+) I(1)) ** (I(1) (+) x[1]) ** (I(1) (+) x[2])
       [] n = 7 /\ i = 0 -> c0125 ** (((I(2) ** x[0] (-) x[1]) (-) x[2]) (+) I(1)) ** (I(1) (+) x[1]) ** (I(1) (+) x[2])
       [] n = 8 /\ i = 0 -> RNeg(c05) ** x[0] ** (I(1) (-) x[1]) ** (I(1) (-) x[2])
       [] n = 9 /\ i = 0 -> RNeg(c025) ** (I(1) (-) x[1] ** x[1]) ** (I(1) (-) x[2])
       [] n = 10 /\ i = 0 -> RNeg(c025) ** (I(1) (-) x[2] ** x[2]) ** (I(1) (-) x[1])
       [] n = 11 /\ i = 0 -> c025 ** (I(1) (-) x[1] ** x[1]) ** (I(1) (-) x[2])
       [] n = 12 /\ i = 0 -> c025 ** (I(1) (-) x[2] ** x[2]) ** (I(1) (-) x[1])
       [] n = 13 /\ i = 0 -> RNeg(c05) ** x[0] ** (I(1) (+) x[1]) ** (I(1) (-) x[2])
       [] n = 14 /\ i = 0 -> c025 ** (I(1) (-) x[2] ** x[2]) ** (I(1) (+) x[1])
       [] n = 15 /\ i = 0 -> RNeg(c025) ** (I(1) (-) x[2] ** x[2]) ** (I(1) (+) x[1])
       [] n = 16 /\ i = 0 -> RNeg(c05) ** x[0] ** (I(1) (-) x[1]) ** (I(1) (+) x[2])
       [] n = 18 /\ i = 0 -> c025 ** (I(1) (-) x[1] ** x[1]) ** (I(1) (+) x[2])
       [] n = 19 /\ i = 0 -> RNeg(c05) ** x[0] ** (I(1) (+) x[1]) ** (I(1) (+) x[2])
       [] n = 17 /\ i = 0 -> RNeg(c025) ** (I(1) (-) x[1] ** x[1]) ** (I(1) (+) x[2])
       [] n = 0 /\ i = 1 -> c0125 ** (((x[0] (+) I(2) ** x[1]) (+) x[2]) (+) I(1)) ** (I(1) (-) x[0]) ** (I(1) (-) x[2])
       [] n = 1 /\ i = 1 -> c0125 ** (((RNeg(x[0]) (+) I(2) ** x[1]) (+) x[2]) (+) I(1)) ** (I(1) (+) x[0]) ** (I(1) (-) x[2])
       [] n = 2 /\ i = 1 -> RNeg(c0125) ** (((RNeg(x[0]) (-) I(2) ** x[1]) (+) x[2]) (+) I(1)) ** (I(1) (+) x[0]) ** (I(1) (-) x[2])
       [] n = 3 /\ i = 1 -> RNeg(c0125) ** (((x[0] (-) I(2) ** x[1]) (+) x[2]) (+) I(1)) ** (I(1) (-) x[1]) ** (I(1) (-) x[2])
       [] n = 4 /\ i = 1 -> c0125 ** (((x[0] (+) I(2) ** x[1]) (-) x[2]) (+) I(1)) ** (I(1) (-) x[0]) ** (I(1) (+) x[2])
       [] n = 5 /\ i = 1 -> c0125 ** (((RNeg(x[0]) (+) I(2) ** x[1]) (-) x[2]) (+) I(1)) ** (I(1) (+) x[0]) ** (I(1) (+) x[2])
       [] n = 6 /\ i = 1 -> RNeg(c0125) ** (((RNeg(x[0]) (-) I(2) ** x[1]) (-) x[2]) (+) I(1)) ** (I(1) (+) x[0]) ** (I(1) (+) x[2])
       [] n = 7 /\ i = 1 -> RNeg(c0125) ** (((x[0] (-) I(2) ** x[1]) (-) x[2]) (+) I(1)) ** (I(1) (-) x[1]) ** (I(1) (+) x[2])
       [] n = 8 /\ i = 1 -> RNeg(c025) ** (I(1) (-) x[0] ** x[0]) ** (I(1) (-) x[2])
       [] n = 9 /\ i = 1 -> RNeg(c05) ** x[1] ** (I(1) (-) x[0]) ** (I(1) (-) x[2])
       [] n = 10 /\ i = 1 -> RNeg(c025) ** (I(1) (-) x[2] ** x[2]) ** (I(1) (-) x[0])
       [] n = 11 /\ i = 1 -> RNeg(c05) ** x[1] ** (I(1) (+) x[0]) ** (I(1) (-) x[2])
       [] n = 12 /\ i = 1 -> RNeg(c025) ** (I(1) (-) x[2] ** x[2]) ** (I(1) (+) x[0])
       [] n = 13 /\ i = 1 -> c025 ** (I(1) (-) x[0] ** x[0]) ** (I(1) (-) x[2])
       [] n = 14 /\ i = 1 -> c025 ** (I(1) (-) x[2] ** x[2]) ** (I(1) (+) x[0])
       [] n = 15 /\ i = 1 -> c025 ** (I(1) (-) x[2] ** x[2]) ** (I(1) (-) x[0])
       [] n = 16 /\ i = 1 -> RNeg(c025) ** (I(1) (-) x[0] ** x[0]) ** (I(1) (+) x[2])
       [] n = 18 /\ i = 1 -> RNeg(c05) ** x[1] ** (I(1) (+) x[0]) ** (I(1) (+) x[2])
       [] n = 19 /\ i = 1 -> c025 ** (I(1) (-) x[0] ** x[0]) ** (I(1) (+) x[2])
       [] n = 17 /\ i = 1 -> RNeg(c05) ** x[1] ** (I(1) (-) x[0]) ** (I(1) (+) x[2])
       [] n = 0 /\ i = 2 -> c0125 ** (((x[0] (+) x[1]) (+) I(2) ** x[2]) (+) I(1)) ** (I(1) (-) x[0]) ** (I(1) (-) x[1])
       [] n = 1 /\ i = 2 -> c0125 ** (((RNeg(x[0]) (+) x[1]) (+) I(2) ** x[2]) (+) I(1)) ** (I(1) (+) x[0]) ** (I(1) (-) x[1])
       [] n = 2 /\ i = 2 -> c0125 ** (((RNeg(x[0]) (-) x[1]) (+) I(2) ** x[2]) (+) I(1)) ** (I(1) (+) x[0]) ** (I(1) (+) x[1])
       [] n = 3 /\ i = 2 -> c0125 ** (((x[0] (-) x[1]) (+) I(2) ** x[2]) (+) I(1)) ** (I(1) (-) x[1]) ** (I(1) (+) x[1])
       [] n = 4 /\ i = 2 -> RNeg(c0125) ** (((x[0] (+) x[1]) (-) I(2) ** x[2]) (+) I(1)) ** (I(1) (-) x[0]) ** (I(1) (-) x[1])
       [] n = 5 /\ i = 2 -> RNeg(c0125) ** (((RNeg(x[0]) (+) x[1]) (-) I(2) ** x[2]) (+) I(1)) ** (I(1) (+) x[0]) ** (I(1) (-) x[1])
       [] n = 6 /\ i = 2 -> RNeg(c0125) ** (((RNeg(x[0]) (-) x[1]) (-) I(2) ** x[2]) (+) I(1)) ** (I(1) (+) x[0]) ** (I(1) (+) x[1])
       [] n = 7 /\ i = 2 -> RNeg(c0125) ** (((x[0] (-) x[1]) (-) I(2) ** x[2]) (+) I(1)) ** (I(1) (-) x[1]) ** (I(1) (+) x[1])
       [] n = 8 /\ i = 2 -> RNeg(c025) ** (I(1) (-) x[0] ** x[0]) ** (I(1) (-) x[1])
       [] n = 9 /\ i = 2 -> RNeg(c025) ** (I(1) (-) x[1] ** x[1]) ** (I(1) (-) x[0])
       [] n = 10 /\ i = 2 -> RNeg(c05) ** x[2] ** (I(1) (-) x[0]) ** (I(1) (-) x[1])
       [] n = 11 /\ i = 2 -> RNeg(c025) ** (I(1) (-) x[1] ** x[1]) ** (I(1) (+) x[0])
       [] n = 12 /\ i = 2 -> RNeg(c05) ** x[2] ** (I(1) (+) x[0]) ** (I(1) (-) x[1])
       [] n = 13 /\ i = 2 -> RNeg(c025) ** (I(1) (-) x[0] ** x[0]) ** (I(1) (+) x[1])
       [] n = 14 /\ i = 2 -> RNeg(c05) ** x[2] ** (I(1) (+) x[0]) ** (I(1) (+) x[1])
       [] n = 15 /\ i = 2 -> RNeg(c05) ** x[2] ** (I(1) (-) x[0]) ** (I(1) (+) x[1])
       [] n = 16 /\ i = 2 -> c025 ** (I(1) (-) x[0] ** x[0]) ** (I(1) (-) x[1])
       [] n = 18 /\ i = 2 -> c025 ** (I(1) (-) x[1] ** x[1]) ** (I(1) (+) x[0])
       [] n = 19 /\ i = 2 -> c025 ** (I(1) (-) x[0] ** x[0]) ** (I(1) (+) x[1])
       [] n = 17 /\ i = 2 -> c025 ** (I(1) (-) x[1] ** x[1]) ** (I(1) (-) x[0])]]

\* unit_cell_coordinates(), 20 rows
unit_cell_coordinates20 ==
  Mat(<< <<I(-1), I(-1), I(-1)>>,
         <<I( 1), I(-1), I(-1)>>,
         <<I( 1), I( 1), I(-1)>>,
         <<I(-1), I( 1), I(-1)>>,
         <<I(-1), I(-1), I( 1)>>,
         <<I( 1), I(-1), I( 1)>>,
         <<I( 1), I( 1), I( 1)>>,
         <<I(-1), I( 1), I( 1)>>,
         <<I( 0), I(-1), I(-1)>>,
         <<I(-1), I( 0), I(-1)>>,
         <<I(-1), I(-1), I( 0)>>,
         <<I( 1), I( 0), I(-1)>>,
         <<I( 1), I(-1), I( 0)>>,
         <<I( 0), I( 1), I(-1)>>,
         <<I( 1), I( 1), I( 0)>>,
         <<I(-1), I( 1), I( 0)>>,
         <<I( 0), I(-1), I( 1)>>,
         <<I(-1), I( 0), I( 1)>>,
         <<I( 1), I( 0), I( 1)>>,
         <<I( 0), I( 1), I( 1)>> >>)

-----------------------------------------------------------------------------
(* HexahedronBSplineElement<3, Tpolynomial> *)

\* the polynomial order of the registered B-spline hexahedron
Tpolynomial == 2

\* knot(node_type): the knot vector of a node type, in units of the spacing
\* length and relative to the node (hexahedron_bspline_element.h)
knot(node_type) ==
  CASE node_type = 1 -> Vec(<<I(0), I(0), c05, Rat(3, 2)>>)
    [] node_type = 2 -> Vec(<<I(-1), RNeg(c05), c05, Rat(3, 2)>>)
    [] node_type = 3 -> Vec(<<Rat(-3, 2), RNeg(c05), c05, I(1)>>)
    [] node_type = 4 -> Vec(<<Rat(-3, 2), RNeg(c05), I(0), I(0)>>)
    [] node_type = 5 -> Vec(<<I(0), I(0), I(0), c05>>)
    [] node_type = 6 -> Vec(<<RNeg(c05), I(0), I(0), I(0)>>)
    [] OTHER         -> Vec(<<Rat(-3, 2), RNeg(c05), c05, Rat(3, 2)>>)

\* knot_coord = nodal_coord * one + spacing_length_ * knot_vector
knot_coord(nodal_coord, node_type) ==
  With2(nodal_coord, knot(node_type), LAMBDA c, knot_vector :
    Eval([k \in DOMAIN knot_vector |-> c (+) (spacing_length_ ** knot_vector[k])]))

\* the recursion of kernel on the knot coordinates kc (the same at every
\* level, since nodal_coord and node_type are passed on unchanged).  A
\* denominator below epsilon is a zero (or negative) one for the dyadic
\* numbers of the model.
RECURSIVE KernelOn(_, _, _, _)
KernelOn(kc, point_coord, poly_order, index) ==
  IF poly_order = 0
  THEN IF ~RLess(point_coord, kc[index]) /\ RLess(point_coord, kc[index + 1])
       THEN I(1) ELSE I(0)
  ELSE With2(kc[index + poly_order] (-) kc[index],
             kc[index + poly_order + 1] (-) kc[index + 1],
             LAMBDA den_a, den_b :
         LET a == IF ~RLess(I(0), den_a) THEN I(0)
                  ELSE RDiv(point_coord (-) kc[index], den_a)
             b == IF ~RLess(I(0), den_b) THEN I(0)
                  ELSE RDiv(kc[index + poly_order + 1] (-) point_coord, den_b)
         IN  (a ** KernelOn(kc, point_coord, poly_order - 1, index))
               (+) (b ** KernelOn(kc, point_coord, poly_order - 1, index + 1)))

\* kernel(point_coord, nodal_coord, node_type, poly_order, index)
kernel(point_coord, nodal_coord, node_type, poly_order, index) ==
  With3(knot_coord(nodal_coord, node_type), point_coord, index,
        LAMBDA kc, p, k : KernelOn(kc, p, poly_order, k))

\* gradient(point_coord, nodal_coord, node_type, poly_order, index = 0)
gradient(point_coord, nodal_coord, node_type, poly_order) ==
  With2(knot_coord(nodal_coord, node_type), point_coord, LAMBDA kc, p :
    With2(kc[poly_order] (-) kc[0], kc[poly_order + 1] (-) kc[1],
          LAMBDA den_a, den_b :
      LET a == IF ~RLess(I(0), den_a) THEN I(0)
               ELSE RDiv(I(poly_order), den_a)
          b == IF ~RLess(I(0), den_b) THEN I(0)
               ELSE RDiv(I(poly_order), den_b)
      IN  (a ** KernelOn(kc, p, poly_order - 1, 0))
            (-) (b ** KernelOn(kc, p, poly_order - 1, 1))))

\* shapefn_local: the 8-node shape functions
bspline_shapefn_local(x) == Eval(shapefn8(x))

\* pcoord: the local coordinates converted to real coordinates
pcoord(x) ==
  With(bspline_shapefn_local(x), LAMBDA local_shapefn :
    Eval([j \in 0 .. 2 |->
       RSum([i \in 0 .. 7 |-> local_shapefn[i] ** nodal_coordinates_[i][j]],
            0, 7)]))

\* the basis value N of node n on axis i without the boundary kernel
AxisKernel_plain(pc, n, i) ==
  kernel(pc[i], nodal_coordinates_[n][i], node_type_[n][i], Tpolynomial, 0)

\* the basis value N of node n on axis i, with the boundary kernel added for
\* the node types 1 and 4
AxisKernel(pc, n, i) ==
  LET N == kernel(pc[i], nodal_coordinates_[n][i], node_type_[n][i],
                  Tpolynomial, 0)
  IN  CASE node_type_[n][i] = 1 ->
             N (+) kernel(pc[i], nodal_coordinates_[n][i], 5, Tpolynomial, 0)
        [] node_type_[n][i] = 4 ->
             N (+) kernel(pc[i], nodal_coordinates_[n][i], 6, Tpolynomial, 0)
        [] OTHER -> N

\* the basis derivative dN_dx of node n on axis i with the additions made
\* for the node types 2 and 3 instead of 1 and 4
AxisGradient_shifted(pc, n, i) ==
  LET dN_dx == gradient(pc[i], nodal_coordinates_[n][i], node_type_[n][i],
                        Tpolynomial)
  IN  CASE node_type_[n][i] = 2 ->
             dN_dx (+) gradient(pc[i], nodal_coordinates_[n][i], 5, Tpolynomial)
        [] node_type_[n][i] = 3 ->
             dN_dx (+) gradient(pc[i], nodal_coordinates_[n][i], 6, Tpolynomial)
        [] OTHER -> dN_dx

\* the basis derivative dN_dx of node n on axis i, with the same additions
AxisGradient(pc, n, i) ==
  LET dN_dx == gradient(pc[i], nodal_coordinates_[n][i], node_type_[n][i],
                        Tpolynomial)
  IN  CASE node_type_[n][i] = 1 ->
             dN_dx (+) gradient(pc[i], nodal_coordinates_[n][i], 5, Tpolynomial)
        [] node_type_[n][i] = 4 ->
             dN_dx (+) gradient(pc[i], nodal_coordinates_[n][i], 6, Tpolynomial)
        [] OTHER -> dN_dx

\* shapefn without the return for a connectivity of 8 nodes
bspline_shapefn_always(x) ==
  With(pcoord(x), LAMBDA pc :
    [n \in 0 .. nconnectivity_ - 1 |->
       I(1) ** AxisKernel(pc, n, 0) ** AxisKernel(pc, n, 1)
            ** AxisKernel(pc, n, 2)])

bspline_shapefn(x) ==
  IF nconnectivity_ = 8 THEN shapefn8(x)
  ELSE With(pcoord(x), LAMBDA pc :
         [n \in 0 .. nconnectivity_ - 1 |->
            I(1) ** AxisKernel(pc, n, 0) ** AxisKernel(pc, n, 1)
                 ** AxisKernel(pc, n, 2)])

\* row n of grad_shapefn: entry i is dN_dx of axis i times the N of the two
\* other axes, in the order of j
GradientRow(pc, n) ==
  With(Eval([j \in 0 .. 2 |-> AxisKernel(pc, n, j)]), LAMBDA N :
    [i \in 0 .. 2 |->
       AxisGradient(pc, n, i) ** N[IF i = 0 THEN 1 ELSE 0]
                              ** N[IF i = 2 THEN 1 ELSE 2]])

bspline_grad_shapefn(x) ==
  IF nconnectivity_ = 8 THEN grad_shapefn8(x)
  ELSE With(pcoord(x), LAMBDA pc :
         [n \in 0 .. nconnectivity_ - 1 |-> GradientRow(pc, n)])

-----------------------------------------------------------------------------
(* The element family: virtual dispatch on the class of the element *)

Hexahedra == {"hex8", "hex20"}
Elements  == {"hex8", "hex20", "bspline"}

\* Tnfunctions, and for the B-spline element the number of connected nodes
nfunctions(e) ==
  CASE e = "hex8" -> 8 [] e = "hex20" -> 20 [] e = "bspline" -> nconnectivity_

\* shapefn with a slip: the weight of mid-side node 17 of the 20-node element
\* (0.25) written as the corner weight 0.125
shapefn_slip(e, x0) ==
  With(x0, LAMBDA x :
    Eval(CASE e = "hex8" -> shapefn8(x)
           [] e = "hex20" -> [shapefn20(x) EXCEPT ![17] = c05 ** @]
           [] e = "bspline" -> bspline_shapefn(x)))

shapefn(e, x0) ==
  With(x0, LAMBDA x :
    Eval(CASE e = "hex8" -> shapefn8(x)
           [] e = "hex20" -> shapefn20(x)
           [] e = "bspline" -> bspline_shapefn(x)))

\* grad_shapefn with a slip: the sign of entry (6, 0) of the 8-node element
grad_shapefn_slip(e, x0) ==
  With(x0, LAMBDA x :
    Eval(CASE e = "hex8" -> [grad_shapefn8(x) EXCEPT ![6][0] = RNeg(@)]
           [] e = "hex20" -> grad_shapefn20(x)
           [] e = "bspline" -> bspline_grad_shapefn(x)))

grad_shapefn(e, x0) ==
  With(x0, LAMBDA x :
    Eval(CASE e = "hex8" -> grad_shapefn8(x)
           [] e = "hex20" -> grad_shapefn20(x)
           [] e = "bspline" -> bspline_grad_shapefn(x)))

unit_cell_coordinates(e) ==
  IF e = "hex20" THEN unit_cell_coordinates20 ELSE unit_cell_coordinates8

-----------------------------------------------------------------------------
(* Jacobian, dn_dx, B-matrix, Laplace matrix and volume.  Each operator gives *)
(* what the member function returns (ret), what it logs (console) and the   *)
(* matrix computations it evaluates (steps).                                *)

JacobianError ==
  "Jacobian calculation: Incorrect dimension of xi and nodal_coordinates"
BMatrixError ==
  "BMatrix - Jacobian calculation: Incorrect dimension of xi and nodal_coordinates"
LaplaceError == "Jacobian calculation: Incorrect dimension of xi & nodes"
OutOfRange == "vector::_M_range_check"

ProductStep == "grad_sf.transpose() * nodal_coordinates"
InverseStep == "jacobian.inverse()"

\* What an Eigen product of operands whose sizes do not fit can give: the
\* failed eigen_assert aborts the program, or (NDEBUG) the product reads
\* outside the operands and the result is arbitrary.
MismatchOutcomes == {<<"abort">>, <<"arbitrary", 0>>, <<"arbitrary", 1>>}

Result(r, c, s) ==
  [ret |-> r, console |-> c, steps |-> s, exception |-> <<>>]

\* the call throws std::runtime_error(what) to its caller and returns nothing
Throw(what) ==
  [ret |-> Vec(<<>>), console |-> <<>>, steps |-> <<>>, exception |-> <<what>>]

\* jacobian with the product taken the other way round,
\* nodal_coordinates^T * grad_shapefn
jacobian_transposed(e, x, nc) ==
  With(grad_shapefn(e, x), LAMBDA grad :
    IF (Rows(grad) # Rows(nc)) \/ (Rows(x) # Cols(nc))
    THEN Result(Zero(3, 3), <<JacobianError>>, <<>>)
    ELSE Result(TransposeTimes(nc, grad), <<>>, <<ProductStep>>))

\* jacobian(xi, nodal_coordinates, particle_size, deformation_gradient), of
\* the hexahedron and of the B-spline element (the same text)
jacobian(e, x, nc) ==
  With(grad_shapefn(e, x), LAMBDA grad :
    IF (Rows(grad) # Rows(nc)) \/ (Rows(x) # Cols(nc))
    THEN Result(Zero(3, 3), <<JacobianError>>, <<>>)
    ELSE Result(TransposeTimes(grad, nc), <<>>, <<ProductStep>>))

\* the 6x3 block of node i built from the physical gradients
BBlock(g, i) ==
  Mat(<< <<g[i][0], I(0),    I(0)>>,
         <<I(0),    g[i][1], I(0)>>,
         <<I(0),    I(0),    g[i][2]>>,
         <<g[i][1], g[i][0], I(0)>>,
         <<I(0),    g[i][2], g[i][1]>>,
         <<g[i][2], I(0),    g[i][0]>> >>)

\* bmatrix built from the local gradients of the nodes before the last and
\* from the shape function of the last node
bmatrix_slip(e, x, nc) ==
  With(grad_shapefn(e, x), LAMBDA grad_sf :
    IF (Rows(grad_sf) # Rows(nc)) \/ (Rows(x) # Cols(nc))
    THEN Result(<<>>, <<BMatrixError>>, <<>>)
    ELSE With(TimesInverse(grad_sf,
                Transpose(Inverse3(TransposeTimes(grad_sf, nc)))), LAMBDA g :
           Result(Eval([i \in 0 .. nfunctions(e) - 1 |->
                     IF i < nfunctions(e) - 1 THEN BBlock(g, i)
                     ELSE BBlock([n \in DOMAIN g |->
                                    [j \in 0 .. 2 |-> shapefn(e, x)[n]]], i)]),
                  <<>>, <<ProductStep, InverseStep>>)))

\* bmatrix without the check of the dimensions
bmatrix_unchecked(e, x, nc) ==
  With(grad_shapefn(e, x), LAMBDA grad_sf :
    IF (Rows(grad_sf) # Rows(nc)) \/ (Rows(x) # Cols(nc))
    THEN Result(<<"arbitrary">>, <<>>, <<ProductStep, InverseStep>>)
    ELSE With(TimesInverse(grad_sf,
                Transpose(Inverse3(TransposeTimes(grad_sf, nc)))), LAMBDA g :
           Result(Eval([i \in 0 .. nfunctions(e) - 1 |-> BBlock(g, i)]),
                  <<>>, <<ProductStep, InverseStep>>)))

\* bmatrix(xi, nodal_coordinates, particle_size, deformation_gradient), of the
\* hexahedron (Tnfunctions blocks) and of the B-spline element
\* (nconnectivity_ blocks)
bmatrix(e, x, nc) ==
  With(grad_shapefn(e, x), LAMBDA grad_sf :
    IF (Rows(grad_sf) # Rows(nc)) \/ (Rows(x) # Cols(nc))
    THEN Result(<<>>, <<BMatrixError>>, <<>>)
    ELSE With(TimesInverse(grad_sf,
                Transpose(Inverse3(TransposeTimes(grad_sf, nc)))), LAMBDA g :
           Result(Eval([i \in 0 .. nfunctions(e) - 1 |-> BBlock(g, i)]),
                  <<>>, <<ProductStep, InverseStep>>)))

\* dn_dx with the inverse of the Jacobian not transposed
dn_dx_untransposed(e, x, nc) ==
  With(grad_shapefn(e, x), LAMBDA grad_sf :
    CASE e = "bspline" -> {Result(grad_sf, <<>>, <<>>)}
      [] e # "bspline" /\ ((Rows(grad_sf) # Rows(nc)) \/ (3 # Cols(nc))) ->
           {Result(outcome, <<>>, <<ProductStep>>) :
              outcome \in MismatchOutcomes}
      [] OTHER ->
           {Result(TimesInverse(grad_sf,
                     Inverse3(TransposeTimes(grad_sf, nc))),
                   <<>>, <<ProductStep, InverseStep>>)})

\* dn_dx(xi, nodal_coordinates, particle_size, deformation_gradient): the
\* results it can give.  The hexahedron makes no check of the dimensions; the
\* B-spline element returns its grad_shapefn.
dn_dx(e, x, nc) ==
  With(grad_shapefn(e, x), LAMBDA grad_sf :
    CASE e = "bspline" -> {Result(grad_sf, <<>>, <<>>)}
      [] e # "bspline" /\ ((Rows(grad_sf) # Rows(nc)) \/ (3 # Cols(nc))) ->
           {Result(outcome, <<>>, <<ProductStep>>) :
              outcome \in MismatchOutcomes}
      [] OTHER ->
           {Result(TimesInverse(grad_sf,
                     Transpose(Inverse3(TransposeTimes(grad_sf, nc)))),
                   <<>>, <<ProductStep, InverseStep>>)})

\* the particle_size argument when the call is over: it is passed on by
\* reference and read by none of the functions, assigned by none
particle_size_passed(ps) == ps

\* ni_nj_matrix(xi_s) of the hexahedron: the sum over the points of
\* shape_fn * shape_fn^T
ni_nj_matrix(e, xi_s) ==
  With(Eval([k \in 1 .. Len(xi_s) |-> shapefn(e, xi_s[k])]), LAMBDA shape_fn :
    Result(Eval([i \in 0 .. nfunctions(e) - 1 |->
                   [j \in 0 .. nfunctions(e) - 1 |->
                      RSum([k \in 1 .. Len(xi_s) |->
                              shape_fn[k][i] ** shape_fn[k][j]],
                           1, Len(xi_s))]]),
           <<>>, <<>>))

\* the sum over the points xi_s[k], k >= from, of grad_shapefn * grad_shapefn^T
RECURSIVE LaplaceSum(_, _, _, _)
LaplaceSum(e, xi_s, nc, from) ==
  With(from, LAMBDA k :
    IF k > Len(xi_s) THEN Zero(nfunctions(e), nfunctions(e))
    ELSE With(grad_shapefn(e, xi_s[k]), LAMBDA grad_sf :
         With(TimesInverse(grad_sf, Inverse3(TransposeTimes(grad_sf, nc))),
              LAMBDA g :
           IF ~IsFinite(g) THEN AllNonFinite(nfunctions(e), nfunctions(e))
           ELSE With(LaplaceSum(e, xi_s, nc, k + 1), LAMBDA rest :
                  IF IsFinite(rest) THEN MAdd(Times(g, Transpose(g)), rest)
                  ELSE rest))))

RECURSIVE StepsOfPoints(_)
StepsOfPoints(n) ==
  IF n = 0 THEN <<>> ELSE <<ProductStep, InverseStep>> \o StepsOfPoints(n - 1)

\* laplace_matrix(xi_s, nodal_coordinates) of the hexahedron: the results it
\* can give.  xi_s.at(0) of an empty xi_s throws std::out_of_range, which the
\* same handler logs.  The handler does not return: the loop over xi_s
\* follows in every case.
laplace_matrix(e, xi_s, nc) ==
  LET mismatch == (nfunctions(e) # Rows(nc)) \/ (3 # Cols(nc))
      log == CASE Len(xi_s) = 0 /\ nfunctions(e) = Rows(nc) -> <<OutOfRange>>
               [] mismatch -> <<LaplaceError>>
               [] OTHER -> <<>>
  IN  CASE Len(xi_s) = 0 ->
             {Result(Zero(nfunctions(e), nfunctions(e)), log, <<>>)}
        [] Len(xi_s) # 0 /\ mismatch ->
             {Result(outcome, log, <<ProductStep>>) :
                outcome \in MismatchOutcomes}
        [] OTHER ->
             {Result(LaplaceSum(e, xi_s, nc, 1), log,
                     StepsOfPoints(Len(xi_s)))}

\* what std::map::at throws for a key the map does not hold
MapAt == "map::at"

\* the face ids face_indices is called with are 0 .. MaxFaceId
MaxFaceId == 7

\* face_indices_hexahedron of the 8-node and of the 20-node element
face_indices_hexahedron8 ==
  Mat(<< <<0, 1, 5, 4>>, <<5, 1, 2, 6>>, <<7, 6, 2, 3>>,
         <<0, 4, 7, 3>>, <<1, 0, 3, 2>>, <<4, 5, 6, 7>> >>)

face_indices_hexahedron20 ==
  Mat(<< <<0, 1, 5, 4,  8, 12, 16, 10>>,
         <<5, 1, 2, 6, 12, 11, 14, 18>>,
         <<7, 6, 2, 3, 19, 14, 13, 15>>,
         <<0, 4, 7, 3, 10, 17, 15,  9>>,
         <<1, 0, 3, 2,  8,  9, 13, 11>>,
         <<4, 5, 6, 7, 16, 18, 19, 17>> >>)

\* face_indices with two mid-side nodes of face 2 of the 20-node element
\* in each other's place
face_indices_swapped(e, face_id) ==
  LET faces == IF e = "hex20"
               THEN [face_indices_hexahedron20 EXCEPT
                       ![2] = Vec(<<7, 6, 2, 3, 19, 13, 14, 15>>)]
               ELSE face_indices_hexahedron8
  IN  IF face_id \in DOMAIN faces THEN Result(faces[face_id], <<>>, <<>>)
      ELSE Throw(MapAt)

\* face_indices(face_id) of a hexahedron: face_indices_hexahedron.at(face_id)
face_indices(e, face_id) ==
  LET faces == IF e = "hex20" THEN face_indices_hexahedron20
               ELSE face_indices_hexahedron8
  IN  IF face_id \in DOMAIN faces THEN Result(faces[face_id], <<>>, <<>>)
      ELSE Throw(MapAt)

\* nfaces() of a hexahedron
nfaces == 6

\* the volume of the hexahedron with the corners a, ..., h
HexahedronVolume(a, b, c, d, e, f, g, h) ==
  (c1_12 ** Dot(VSub(a, g),
                VAdd(VAdd(Cross(VSub(b, d), VSub(c, a)),
                          Cross(VSub(e, b), VSub(f, a))),
                     Cross(VSub(d, e), VSub(h, a)))))
  (+) (c1_12 ** Dot(VSub(b, g),
                    VAdd(Cross(VSub(b, d), VSub(c, a)),
                         Cross(VSub(c, g), VSub(c, f)))))
  (+) (c1_12 ** Dot(VSub(e, g),
                    VAdd(Cross(VSub(e, b), VSub(f, a)),
                         Cross(VSub(f, g), VSub(h, f)))))
  (+) (c1_12 ** Dot(VSub(d, g),
                    VAdd(Cross(VSub(d, e), VSub(h, a)),
                         Cross(VSub(h, g), VSub(h, c)))))

\* compute_volume with the rows of a and b taken in the other order
compute_volume_slip(nc) ==
  HexahedronVolume(nc[6], nc[7], nc[2], nc[3], nc[4], nc[5], nc[1], nc[0])

\* compute_volume(nodal_coordinates)
compute_volume(nc) ==
  HexahedronVolume(nc[7], nc[6], nc[2], nc[3], nc[4], nc[5], nc[1], nc[0])

-----------------------------------------------------------------------------
(* What the plain hexahedron does not implement *)

AnalyticalNotImplemented ==
  "Analytical solution for Hex<Tdim, Tnfunctions> has not been implemented"
BSplineNotImplemented ==
  "Function to initialise bspline connectivity is not implemented for Hex<Tdim, Tnfunctions> "
LmeNotImplemented ==
  "Function to initialise lme connectivity is not implemented for Hex<Tdim, Tnfunctions> "

\* natural_coordinates_analytical giving back the xi it filled, without the
\* throw
natural_coordinates_analytical_returning(point, nc) ==
  Result([j \in 0 .. 2 |-> NonFinite], <<>>, <<>>)

\* natural_coordinates_analytical(point, nodal_coordinates) of the
\* hexahedron: the throw comes before the return
natural_coordinates_analytical(point, nc) == Throw(AnalyticalNotImplemented)

\* initialise_bspline_connectivity_properties(nodal_coordinates,
\* nodal_properties) of the hexahedron
hexahedron_initialise_bspline_connectivity_properties(nc, nodal_properties) ==
  Throw(BSplineNotImplemented)

\* initialise_lme_connectivity_properties(beta, radius, anisotropy,
\* nodal_coordinates) of the hexahedron
initialise_lme_connectivity_properties(beta, radius, anisotropy, nc) ==
  Throw(LmeNotImplemented)

\* isvalid_natural_coordinates_analytical() of the hexahedron
isvalid_natural_coordinates_analytical == Result(FALSE, <<>>, <<>>)

-----------------------------------------------------------------------------
(* The persisted particle record (hdf5_particle.cc) *)

\* a member of struct HDF5Particle, and a slot of an array member of it
Member(m)  == [member |-> m, slot |-> -1]
Slot(m, k) == [member |-> m, slot |-> k]

\* HOFFSET(HDF5Particle, m): the table holds the offset of member m
dst_offset ==
  Vec(<<
       Member("id"), Member("mass"), Member("volume"), Member("pressure"),
       Member("coord_x"), Member("coord_y"), Member("coord_z"),
       Member("displacement_x"), Member("displacement_y"),
       Member("displacement_z"), Member("nsize_x"), Member("nsize_y"),
       Member("nsize_z"), Member("velocity_x"), Member("velocity_y"),
       Member("velocity_z"), Member("acceleration_x"),
       Member("acceleration_y"), Member("acceleration_z"),
       Member("stress_xx"), Member("stress_yy"), Member("stress_zz"),
       Member("tau_xy"), Member("tau_yz"), Member("tau_xz"),
       Member("strain_xx"), Member("strain_yy"), Member("strain_zz"),
       Member("gamma_xy"), Member("gamma_yz"), Member("gamma_xz"),
       Member("epsilon_v"), Member("status"), Member("cell_id"),
       Member("material_id"), Member("nstate_vars"), Slot("svars", 0),
       Slot("svars", 1), Slot("svars", 2), Slot("svars", 3),
       Slot("svars", 4), Slot("svars", 5), Slot("svars", 6),
       Slot("svars", 7), Slot("svars", 8), Slot("svars", 9),
       Slot("svars", 10), Slot("svars", 11), Slot("svars", 12),
       Slot("svars", 13), Slot("svars", 14), Slot("svars", 15),
       Slot("svars", 16), Slot("svars", 17), Slot("svars", 18),
       Slot("svars", 19) >>)

\* dst_sizes with tau_yz and tau_xz in the other order
dst_sizes_swapped ==
  [k \in DOMAIN dst_offset |->
     CASE k = 23 -> Member("tau_xz")
       [] k = 24 -> Member("tau_yz")
       [] OTHER  -> dst_offset[k]]

\* sizeof(particle.m): the table holds the size of member m
dst_sizes ==
  Vec(<<
       Member("id"), Member("mass"), Member("volume"), Member("pressure"),
       Member("coord_x"), Member("coord_y"), Member("coord_z"),
       Member("displacement_x"), Member("displacement_y"),
       Member("displacement_z"), Member("nsize_x"), Member("nsize_y"),
       Member("nsize_z"), Member("velocity_x"), Member("velocity_y"),
       Member("velocity_z"), Member("acceleration_x"),
       Member("acceleration_y"), Member("acceleration_z"),
       Member("stress_xx"), Member("stress_yy"), Member("stress_zz"),
       Member("tau_xy"), Member("tau_yz"), Member("tau_xz"),
       Member("strain_xx"), Member("strain_yy"), Member("strain_zz"),
       Member("gamma_xy"), Member("gamma_yz"), Member("gamma_xz"),
       Member("epsilon_v"), Member("status"), Member("cell_id"),
       Member("material_id"), Member("nstate_vars"), Slot("svars", 0),
       Slot("svars", 1), Slot("svars", 2), Slot("svars", 3),
       Slot("svars", 4), Slot("svars", 5), Slot("svars", 6),
       Slot("svars", 7), Slot("svars", 8), Slot("svars", 9),
       Slot("svars", 10), Slot("svars", 11), Slot("svars", 12),
       Slot("svars", 13), Slot("svars", 14), Slot("svars", 15),
       Slot("svars", 16), Slot("svars", 17), Slot("svars", 18),
       Slot("svars", 19) >>)

field_names ==
  Vec(<<
       "id", "mass", "volume", "pressure", "coord_x", "coord_y", "coord_z",
       "displacement_x", "displacement_y", "displacement_z", "nsize_x",
       "nsize_y", "nsize_z", "velocity_x", "velocity_y", "velocity_z",
       "acceleration_x", "acceleration_y", "acceleration_z", "stress_xx",
       "stress_yy", "stress_zz", "tau_xy", "tau_yz", "tau_xz", "strain_xx",
       "strain_yy", "strain_zz", "gamma_xy", "gamma_yz", "gamma_xz",
       "epsilon_v", "status", "cell_id", "material_id", "nstate_vars",
       "svars_0", "svars_1", "svars_2", "svars_3", "svars_4", "svars_5",
       "svars_6", "svars_7", "svars_8", "svars_9", "svars_10", "svars_11",
       "svars_12", "svars_13", "svars_14", "svars_15", "svars_16",
       "svars_17", "svars_18", "svars_19" >>)

\* the initialisers written for field_type
field_type_initialisers ==
  Vec(<<
       "H5T_NATIVE_LLONG", "H5T_NATIVE_DOUBLE", "H5T_NATIVE_DOUBLE",
       "H5T_NATIVE_DOUBLE", "H5T_NATIVE_DOUBLE", "H5T_NATIVE_DOUBLE",
       "H5T_NATIVE_DOUBLE", "H5T_NATIVE_DOUBLE", "H5T_NATIVE_DOUBLE",
       "H5T_NATIVE_DOUBLE", "H5T_NATIVE_DOUBLE", "H5T_NATIVE_DOUBLE",
       "H5T_NATIVE_DOUBLE", "H5T_NATIVE_DOUBLE", "H5T_NATIVE_DOUBLE",
       "H5T_NATIVE_DOUBLE", "H5T_NATIVE_DOUBLE", "H5T_NATIVE_DOUBLE",
       "H5T_NATIVE_DOUBLE", "H5T_NATIVE_DOUBLE", "H5T_NATIVE_DOUBLE",
       "H5T_NATIVE_DOUBLE", "H5T_NATIVE_DOUBLE", "H5T_NATIVE_DOUBLE",
       "H5T_NATIVE_DOUBLE", "H5T_NATIVE_DOUBLE", "H5T_NATIVE_DOUBLE",
       "H5T_NATIVE_DOUBLE", "H5T_NATIVE_DOUBLE", "H5T_NATIVE_HBOOL",
       "H5T_NATIVE_LLONG", "H5T_NATIVE_UINT", "H5T_NATIVE_UINT",
       "H5T_NATIVE_DOUBLE", "H5T_NATIVE_DOUBLE", "H5T_NATIVE_DOUBLE",
       "H5T_NATIVE_DOUBLE", "H5T_NATIVE_DOUBLE", "H5T_NATIVE_DOUBLE",
       "H5T_NATIVE_DOUBLE", "H5T_NATIVE_DOUBLE", "H5T_NATIVE_DOUBLE",
       "H5T_NATIVE_DOUBLE", "H5T_NATIVE_DOUBLE", "H5T_NATIVE_DOUBLE",
       "H5T_NATIVE_DOUBLE", "H5T_NATIVE_DOUBLE", "H5T_NATIVE_DOUBLE",
       "H5T_NATIVE_DOUBLE", "H5T_NATIVE_DOUBLE", "H5T_NATIVE_DOUBLE",
       "H5T_NATIVE_DOUBLE", "H5T_NATIVE_DOUBLE" >>)

\* NFIELDS is declared in hdf5_particle.h; the four tables are arrays of
\* NFIELDS entries, and field_names is given this many initialisers (an array
\* with more initialisers than entries does not compile)
NFIELDS == Rows(field_names)

\* an array with fewer initialisers than entries is zero-filled: hid_t 0,
\* which is no datatype
field_type ==
  [k \in 0 .. NFIELDS - 1 |->
     IF k < Rows(field_type_initialisers) THEN field_type_initialisers[k]
     ELSE "0"]

\* the name under which a member is stored: its own, and member_k for slot k
FieldName(m) ==
  IF m.slot = -1 THEN m.member ELSE m.member \o "_" \o ToString(m.slot)

-----------------------------------------------------------------------------
(* The arguments the calls are made with *)

Grid == {Rat(k, Pow2(GridBits)) : k \in -Pow2(GridBits) .. Pow2(GridBits)}

\* the local coordinates of [-1, 1]^3 on the grid
LocalCoordinates == [0 .. 2 -> Grid]

Centroid == Vec(<<I(0), I(0), I(0)>>)

\* the local coordinates the matrix functions are called with: the centroid,
\* an inner point and a point of the face xi(0) = 1
MatrixPoints ==
  {Centroid, Vec(<<c05, c05, RNeg(c05)>>), Vec(<<I(1), c05, RNeg(c05)>>)}

BSplinePoints == {Centroid, Vec(<<RNeg(c05), c05, c025>>)}

\* the lists of points laplace_matrix is called with: none, one, two
PointLists ==
  {<<>>, <<Centroid>>,
   <<Vec(<<c05, c05, RNeg(c05)>>), Vec(<<RNeg(c05), RNeg(c05), c05>>)>>}

NoVector == Vec(<<>>)
NoMatrix == Mat(<<>>)

Identity3 ==
  [i \in 0 .. 2 |-> [j \in 0 .. 2 |-> IF i = j THEN I(1) ELSE I(0)]]

\* particle sizes and deformation gradients: the zero ones that ni_nj_matrix
\* and laplace_matrix pass, and those of a particle
ParticleSizes == {Vec(<<I(0), I(0), I(0)>>), Vec(<<I(1), c05, I(2)>>)}
DeformationGradients == {Zero(3, 3), Identity3}
Particles ==
  {[size |-> Vec(<<I(0), I(0), I(0)>>), F |-> Zero(3, 3)],
   [size |-> Vec(<<I(1), c05, I(2)>>), F |-> Identity3]}

\* the nodal coordinates of the axis-aligned box with centre c and half side
\* lengths h, in the node order of an element with unit cell uc
Box(uc, c, h) ==
  Eval([n \in DOMAIN uc |-> [j \in 0 .. 2 |-> c[j] (+) (h[j] ** uc[n][j])]])

\* the nodal coordinates of the sheared cell: the point u of the unit cell
\* at (u0 + u1/2 + 1, 2 u1 - 2, u2/2 + 1/2)
Sheared(uc) ==
  Eval([n \in DOMAIN uc |->
     Vec(<<uc[n][0] (+) (c05 ** uc[n][1]) (+) I(1),
           (I(2) ** uc[n][1]) (-) I(2),
           (c05 ** uc[n][2]) (+) c05>>)])

HalfSides == {Rat(k, 2) : k \in 1 .. MaxHalfSide}
Centres == {Centroid, Vec(<<I(1), I(-2), c05>>)}

Boxes(e) ==
  {Box(unit_cell_coordinates(e), c, h) : c \in Centres, h \in [0 .. 2 -> HalfSides]}

\* the nodal coordinates nc with the first coordinate of every node doubled
Stretched(nc) ==
  Eval([n \in DOMAIN nc |-> [j \in 0 .. 2 |->
     IF j = 0 THEN I(2) ** nc[n][j] ELSE nc[n][j]]])

\* the box with centre (1, -2, 1/2) and half side lengths (1/2, 1, 3/2)
OffsetBox(e) ==
  Box(unit_cell_coordinates(e), Vec(<<I(1), I(-2), c05>>),
      Vec(<<c05, I(1), Rat(3, 2)>>))

UnitCube(e) == Box(unit_cell_coordinates(e), Centroid, Vec(<<I(1), I(1), I(1)>>))

\* the first r rows and the first c columns of a matrix
Block(M, r, c) ==
  Eval([i \in 0 .. r - 1 |-> [j \in 0 .. c - 1 |-> M[i][j]]])

\* nodal coordinates of a cell of the element's own size: the unit cube, a
\* sheared cell and a box; for the B-spline element, the coordinates of its
\* connectivity and the same stretched along the first axis
CellCoordinates(e) ==
  IF e = "bspline" THEN {nodal_coordinates_, Stretched(nodal_coordinates_)}
  ELSE {UnitCube(e), Sheared(unit_cell_coordinates(e)), OffsetBox(e)}

\* nodal coordinates whose size does not fit the element: a row short, a
\* column short, and the rows of the other hexahedron
MismatchedCoordinates(e) ==
  LET own == IF e = "bspline" THEN nodal_coordinates_ ELSE UnitCube(e)
  IN  {Block(own, nfunctions(e) - 1, 3),
       Block(own, nfunctions(e), 2),
       UnitCube(IF nfunctions(e) = 8 THEN "hex20" ELSE "hex8")}

\* the coldness values initialise_lme_connectivity_properties is called with
LmeBetas == {I(0), I(1)}

\* the connectivity of a cell [-1, 1]^3 of a grid of spacing 2: the 8 nodes of
\* the cell alone, and the cell with the layer of nodes next to it on either
\* side along each axis, 4 x 4 x 4 nodes, the 8 of the cell first; every
\* node is regular (type 0) on every axis
Layer == <<I(-3), I(-1), I(1), I(3)>>
OuterNodes ==
  {p \in [0 .. 2 -> 1 .. 4] : \E j \in 0 .. 2 : p[j] \in {1, 4}}

RECURSIVE SetToSeq(_)
SetToSeq(S) ==
  IF S = {} THEN <<>>
  ELSE LET p == CHOOSE q \in S : TRUE IN <<p>> \o SetToSeq(S \ {p})

Connectivity64 ==
  LET outer == SetToSeq(OuterNodes)
  IN  [n \in 0 .. 63 |->
         IF n < 8 THEN unit_cell_coordinates8[n]
         ELSE [j \in 0 .. 2 |-> Layer[outer[n - 7][j]]]]

Regular(n) == [k \in 1 .. n |-> <<0, 0, 0>>]

\* the nodes along one axis that are connected to the cell [-1, 1], with
\* their types: in the interior of the grid; with the cell at the lower edge
\* of the domain (boundary node -1 of type 1, then types 2 and 0); with the
\* cell at the upper edge (types 0 and 3, then boundary node 1 of type 4)
InteriorAxis == [pos |-> Layer, type |-> <<0, 0, 0, 0>>]
LowerEdgeAxis == [pos |-> <<I(-1), I(1), I(3)>>, type |-> <<1, 2, 0>>]
UpperEdgeAxis == [pos |-> <<I(-3), I(-1), I(1)>>, type |-> <<0, 3, 4>>]

\* the connectivity of the cell [-1, 1]^3 with the nodes ax[j] along axis j:
\* the 8 nodes of the cell first, in the order of the 8-node element
Patch(ax) ==
  LET points == {q \in [0 .. 2 -> 1 .. 4] :
                   \A j \in 0 .. 2 : q[j] <= Len(ax[j].pos)}
      corner(n) == CHOOSE q \in points : \A j \in 0 .. 2 :
                     ax[j].pos[q[j]] = unit_cell_coordinates8[n][j]
      others == SetToSeq(points \ {corner(n) : n \in 0 .. 7})
      order == [n \in 0 .. Cardinality(points) - 1 |->
                  IF n < 8 THEN corner(n) ELSE others[n - 7]]
  IN  [nodal_coordinates |->
         [n \in DOMAIN order |-> [j \in 0 .. 2 |-> ax[j].pos[order[n][j]]]],
       nodal_properties |->
         [k \in 1 .. Cardinality(points) |->
            <<ax[0].type[order[k - 1][0]], ax[1].type[order[k - 1][1]],
              ax[2].type[order[k - 1][2]]>>]]

\* the cell in the corner of the domain where the first axis begins and the
\* second ends: 3 x 3 x 4 connected nodes
EdgePatch ==
  Patch([j \in 0 .. 2 |->
     CASE j = 0 -> LowerEdgeAxis [] j = 1 -> UpperEdgeAxis
       [] OTHER -> InteriorAxis])

\* node types of 8 nodes, boundary types among them
Mixed8 ==
  << <<1, 0, 4>>, <<2, 1, 0>>, <<3, 4, 1>>, <<4, 2, 2>>,
     <<0, 3, 3>>, <<1, 1, 1>>, <<4, 4, 4>>, <<2, 3, 0>> >>

\* the arguments of initialise_bspline_connectivity_properties
Connectivities ==
  {[nodal_coordinates |-> unit_cell_coordinates8, nodal_properties |-> Regular(8)],
   [nodal_coordinates |-> OffsetBox("hex8"), nodal_properties |-> Mixed8],
   EdgePatch,
   [nodal_coordinates |-> Connectivity64, nodal_properties |-> Regular(64)]}

-----------------------------------------------------------------------------
(* The calls *)

\* the call being made, as the caller may remember it: the function, its
\* arguments and what it gave
TheCall ==
  [op |-> op, xi |-> xi, nodal_coordinates |-> nodal_coordinates,
   particle_size |-> particle_size,
   deformation_gradient |-> deformation_gradient,
   ret |-> ret, console |-> console, exception |-> exception]

\* no call is remembered: the calls are not kept, or none was made since the
\* connectivity was assigned
NotKept == [op |-> "not kept"]

\* the assigned connectivities are not kept, and the list when they are
NoneKept == [kept |-> FALSE]
Kept(calls) == [kept |-> TRUE, calls |-> calls]

\* the list of the assigned connectivities with c added, the last two kept
Assigned(c) ==
  IF ~assigned.kept THEN NoneKept
  ELSE Kept(IF assigned.calls = <<>> THEN <<c>>
            ELSE <<assigned.calls[Len(assigned.calls)], c>>)
NoCall == [op |-> "none"]


\* the threads of the process
Threads == {1, 2}

\* no thread: the mutex is free
NoThread == 0

\* the global ids of the particles (Index)
ParticleIds == 0 .. MaxParticleId

\* a thread that is in no call on the cell
Idle == [pc |-> "idle"]

\* std::numeric_limits<double>::lowest(), the volume_ of a cell whose volume
\* is not computed: a number below every volume
lowest == <<0 - 1000000, 1>>

\* Cell(id, nnodes, elementptr): the members of a cell with no node yet, and
\* ret, what the last call on the cell returned
Constructed(nnodes, elementptr) ==
  [nnodes_ |-> nnodes, nodes_ |-> <<>>, element_ |-> elementptr,
   volume_ |-> lowest, rank_ |-> 0, previous_mpirank_ |-> 0,
   stiffness_matrix_ |-> <<>>, upgraded |-> FALSE,
   ret |-> <<"constructor">>]

\* no point is being located
NotLocating == [pc |-> "idle"]

\* no solver is constructed
NoSolver == [pc |-> "none"]

\* the cell as constructed: no particle id, the mutex free; no point is
\* being located and no solver is there
CellConstructed ==
  /\ cell = Constructed(8, "hex8")
  /\ locate = NotLocating
  /\ solver = NoSolver
  /\ particles_ = <<>>
  /\ cell_mutex_ = NoThread
  /\ thread = [t \in Threads |-> Idle]

\* no thread calls the cell
NoCell ==
  /\ CellConstructed
  /\ callers = {}

\* an element of one of the three classes has been constructed, or none; the
\* connectivity members of a B-spline element are not yet assigned
\* (nconnectivity_ = 0 stands for that, and no evaluation is made then)
Init ==
  /\ element \in Elements \cup {"none"}
  /\ nconnectivity_ = 0
  /\ nodal_coordinates_ = NoMatrix
  /\ node_type_ = <<>>
  /\ spacing_length_ = I(0)
  /\ op = "none"
  /\ xi = NoVector
  /\ nodal_coordinates = NoMatrix
  /\ particle_size = NoVector
  /\ particle_size_after = NoVector
  /\ deformation_gradient = NoMatrix
  /\ ret = NoVector
  /\ console = <<>>
  /\ exception = <<>>
  /\ steps = <<>>
  /\ previous = NotKept
  /\ assigned = NoneKept
  /\ NoCell

Members == <<element, nconnectivity_, nodal_coordinates_, node_type_,
             spacing_length_>>

\* no call is being made, and the element can evaluate: it is a hexahedron,
\* or a B-spline element whose connectivity has been assigned
Ready ==
  /\ op = "none"
  /\ element \in Hexahedra \/ (element = "bspline" /\ nconnectivity_ # 0)

\* a call with the arguments x, nc, ps, dg that leaves the members alone
Call(name, x, nc, ps, dg, result) ==
  /\ op = "none"
  /\ op' = name
  /\ xi' = x
  /\ nodal_coordinates' = nc
  /\ particle_size' = ps
  /\ particle_size_after' = particle_size_passed(ps)
  /\ deformation_gradient' = dg
  /\ ret' = result.ret
  /\ console' = result.console
  /\ exception' = result.exception
  /\ steps' = result.steps
  /\ UNCHANGED <<Members, previous, assigned, CellVars, OtherVars>>

\* initialise_bspline_connectivity_properties that assigns node_type_ once,
\* at the first call
InitialiseBSplineConnectivityProperties_once(c) ==
  \/ /\ element = "bspline"
     /\ op = "none"
     /\ Rows(c.nodal_coordinates) = Len(c.nodal_properties)
     /\ nconnectivity_' = Rows(c.nodal_coordinates)
     /\ nodal_coordinates_' = c.nodal_coordinates
     /\ node_type_' = IF nconnectivity_ = 0 THEN Mat(c.nodal_properties)
                      ELSE node_type_
     /\ spacing_length_' =
          With(c.nodal_coordinates[1][0] (-) c.nodal_coordinates[0][0],
               LAMBDA d : IF RLess(d, I(0)) THEN RNeg(d) ELSE d)
     /\ previous' = IF previous = NotKept THEN NotKept ELSE NoCall
     /\ assigned' = Assigned(c)
     /\ UNCHANGED <<element, op, xi, nodal_coordinates, particle_size,
                    particle_size_after, deformation_gradient, ret, console,
                    exception, steps, CellVars, OtherVars>>
  \/ /\ element \in Hexahedra
     /\ op = "none"
     /\ Call("initialise_bspline_connectivity_properties", NoVector,
             c.nodal_coordinates, NoVector, NoMatrix,
             hexahedron_initialise_bspline_connectivity_properties(
               c.nodal_coordinates, c.nodal_properties))

\* initialise_bspline_connectivity_properties(nodal_coordinates,
\* nodal_properties) on the B-spline element
InitialiseBSplineConnectivityProperties(c) ==
  \/ /\ element = "bspline"
     /\ op = "none"
     /\ Rows(c.nodal_coordinates) = Len(c.nodal_properties)
     /\ nconnectivity_' = Rows(c.nodal_coordinates)
     /\ nodal_coordinates_' = c.nodal_coordinates
     /\ node_type_' = Mat(c.nodal_properties)
     /\ spacing_length_' =
          With(c.nodal_coordinates[1][0] (-) c.nodal_coordinates[0][0],
               LAMBDA d : IF RLess(d, I(0)) THEN RNeg(d) ELSE d)
     /\ previous' = IF previous = NotKept THEN NotKept ELSE NoCall
     /\ assigned' = Assigned(c)
     /\ UNCHANGED <<element, op, xi, nodal_coordinates, particle_size,
                    particle_size_after, deformation_gradient, ret, console,
                    exception, steps, CellVars, OtherVars>>
  \/ /\ element \in Hexahedra
     /\ op = "none"
     /\ Call("initialise_bspline_connectivity_properties", NoVector,
             c.nodal_coordinates, NoVector, NoMatrix,
             hexahedron_initialise_bspline_connectivity_properties(
               c.nodal_coordinates, c.nodal_properties))

\* shapefn(xi, particle_size, deformation_gradient)
Shapefn(x, ps, dg) ==
  /\ Ready
  /\ Call("shapefn", x, NoMatrix, ps, dg,
          Result(shapefn(element, x), <<>>, <<>>))

\* grad_shapefn(xi, particle_size, deformation_gradient)
GradShapefn(x, ps, dg) ==
  /\ Ready
  /\ Call("grad_shapefn", x, NoMatrix, ps, dg,
          Result(grad_shapefn(element, x), <<>>, <<>>))

\* jacobian(xi, nodal_coordinates, particle_size, deformation_gradient)
Jacobian(x, nc, ps, dg) ==
  /\ Ready
  /\ \E r \in {jacobian(element, x, nc)} : Call("jacobian", x, nc, ps, dg, r)

\* bmatrix(xi, nodal_coordinates, particle_size, deformation_gradient)
Bmatrix(x, nc, ps, dg) ==
  /\ Ready
  /\ \E r \in {bmatrix(element, x, nc)} : Call("bmatrix", x, nc, ps, dg, r)

\* dn_dx(xi, nodal_coordinates, particle_size, deformation_gradient)
DnDx(x, nc, ps, dg) ==
  /\ Ready
  /\ \E r \in dn_dx(element, x, nc) : Call("dn_dx", x, nc, ps, dg, r)

\* ni_nj_matrix(xi_s) of a hexahedron
NiNjMatrix(xi_s) ==
  /\ op = "none"
  /\ element \in Hexahedra
  /\ \E r \in {ni_nj_matrix(element, xi_s)} :
        Call("ni_nj_matrix", xi_s, NoMatrix, NoVector, NoMatrix, r)

\* laplace_matrix(xi_s, nodal_coordinates) of a hexahedron
LaplaceMatrix(xi_s, nc) ==
  /\ op = "none"
  /\ element \in Hexahedra
  /\ \E r \in laplace_matrix(element, xi_s, nc) :
        Call("laplace_matrix", xi_s, nc, NoVector, NoMatrix, r)

\* face_indices(face_id) of a hexahedron; the face id is kept in xi
FaceIndices(face_id) ==
  /\ op = "none"
  /\ element \in Hexahedra
  /\ Call("face_indices", Vec(<<face_id>>), NoMatrix, NoVector, NoMatrix,
          face_indices(element, face_id))

\* compute_volume(nodal_coordinates) of a hexahedron
ComputeVolume(nc) ==
  /\ op = "none"
  /\ element \in Hexahedra
  /\ Call("compute_volume", NoVector, nc, NoVector, NoMatrix,
          Result(compute_volume(nc), <<>>, <<>>))

\* natural_coordinates_analytical(point, nodal_coordinates) of a hexahedron
NaturalCoordinatesAnalytical(point, nc) ==
  /\ op = "none"
  /\ element \in Hexahedra
  /\ Call("natural_coordinates_analytical", point, nc, NoVector, NoMatrix,
          natural_coordinates_analytical(point, nc))

\* initialise_lme_connectivity_properties(beta, radius, anisotropy,
\* nodal_coordinates) of a hexahedron
InitialiseLmeConnectivityProperties(beta, radius, anisotropy, nc) ==
  /\ op = "none"
  /\ element \in Hexahedra
  /\ Call("initialise_lme_connectivity_properties", NoVector, nc, NoVector,
          NoMatrix,
          initialise_lme_connectivity_properties(beta, radius, anisotropy, nc))

\* isvalid_natural_coordinates_analytical() of a hexahedron
IsvalidNaturalCoordinatesAnalytical ==
  /\ op = "none"
  /\ element \in Hexahedra
  /\ Call("isvalid_natural_coordinates_analytical", NoVector, NoMatrix,
          NoVector, NoMatrix, isvalid_natural_coordinates_analytical)

\* the HDF5 table layer reads entry k of the four tables of the particle record
TableField(k) ==
  /\ op = "none"
  /\ element = "none"
  /\ Call("table_field", NoVector, NoMatrix, NoVector, NoMatrix,
          Result([index |-> k, name |-> field_names[k],
                  offset |-> dst_offset[k], size |-> dst_sizes[k],
                  type |-> field_type[k]], <<>>, <<>>))

\* a matrix product of mismatched sizes has ended the process
Aborted == steps # <<>> /\ ret = <<"abort">>

\* the caller takes the result; there is no caller left to take it when the
\* call has aborted the process
Return ==
  /\ op # "none"
  /\ ~Aborted
  /\ previous' = IF previous = NotKept THEN NotKept ELSE TheCall
  /\ op' = "none"
  /\ xi' = NoVector
  /\ nodal_coordinates' = NoMatrix
  /\ particle_size' = NoVector
  /\ particle_size_after' = NoVector
  /\ deformation_gradient' = NoMatrix
  /\ ret' = NoVector
  /\ console' = <<>>
  /\ exception' = <<>>
  /\ steps' = <<>>
  /\ UNCHANGED <<Members, assigned, CellVars, OtherVars>>

\* the nodal coordinates the matrix functions are called with
Coordinates == CellCoordinates(element) \cup MismatchedCoordinates(element)

\* the local coordinates the functions are evaluated at: the grid and the
\* points of the matrix functions for the hexahedra and the B-spline element
\* of 8 nodes, two points for the B-spline element of more nodes
EvaluationPoints ==
  IF element = "bspline" /\ nconnectivity_ # 8 THEN BSplinePoints
  ELSE LocalCoordinates
CallPoints ==
  IF element = "bspline" THEN BSplinePoints ELSE MatrixPoints

Next ==
  \/ \E c \in Connectivities : InitialiseBSplineConnectivityProperties(c)
  \/ /\ Ready
     /\ \E x \in EvaluationPoints, p \in Particles :
          \/ Shapefn(x, p.size, p.F)
          \/ GradShapefn(x, p.size, p.F)
  \/ /\ Ready
     /\ \E x \in CallPoints, nc \in Coordinates, p \in Particles :
          \/ Jacobian(x, nc, p.size, p.F)
          \/ Bmatrix(x, nc, p.size, p.F)
          \/ DnDx(x, nc, p.size, p.F)
  \/ /\ Ready
     /\ element \in Hexahedra
     /\ \/ \E xi_s \in PointLists, nc \in Coordinates : LaplaceMatrix(xi_s, nc)
        \/ \E xi_s \in PointLists : NiNjMatrix(xi_s)
        \/ \E nc \in Boxes(element) : ComputeVolume(nc)
        \/ \E point \in MatrixPoints, nc \in CellCoordinates(element) :
              NaturalCoordinatesAnalytical(point, nc)
        \/ \E beta \in LmeBetas, anisotropy \in BOOLEAN :
              InitialiseLmeConnectivityProperties(beta, I(2), anisotropy,
                                                  UnitCube(element))
        \/ IsvalidNaturalCoordinatesAnalytical
        \/ \E face_id \in 0 .. MaxFaceId : FaceIndices(face_id)
  \/ \E k \in 0 .. NFIELDS - 1 : TableField(k)
  \/ Return

Spec == Init /\ [][Next]_vars

-----------------------------------------------------------------------------
(* Calls made one after the other: the caller keeps the call it made last, *)
(* with what it gave, until the connectivity is assigned again.            *)

InitRepeated ==
  /\ element \in Elements
  /\ nconnectivity_ = 0
  /\ nodal_coordinates_ = NoMatrix
  /\ node_type_ = <<>>
  /\ spacing_length_ = I(0)
  /\ op = "none"
  /\ xi = NoVector
  /\ nodal_coordinates = NoMatrix
  /\ particle_size = NoVector
  /\ particle_size_after = NoVector
  /\ deformation_gradient = NoMatrix
  /\ ret = NoVector
  /\ console = <<>>
  /\ exception = <<>>
  /\ steps = <<>>
  /\ previous = NoCall
  /\ assigned = NoneKept
  /\ NoCell

\* the nodal coordinates of the repeated calls: the element's own cell, and
\* the same a row short
RepeatedCoordinates ==
  LET own == IF element = "bspline" THEN nodal_coordinates_
             ELSE UnitCube(element)
  IN  {own, Block(own, nfunctions(element) - 1, 3)}

RepeatedConnectivities ==
  {[nodal_coordinates |-> unit_cell_coordinates8, nodal_properties |-> Regular(8)],
   EdgePatch}

NextRepeated ==
  \/ \E c \in RepeatedConnectivities : InitialiseBSplineConnectivityProperties(c)
  \/ /\ Ready
     /\ \E p \in Particles :
          \/ Shapefn(Centroid, p.size, p.F)
          \/ GradShapefn(Centroid, p.size, p.F)
  \/ /\ Ready
     /\ \E nc \in RepeatedCoordinates, p \in Particles :
          \/ Jacobian(Centroid, nc, p.size, p.F)
          \/ Bmatrix(Centroid, nc, p.size, p.F)
          \/ DnDx(Centroid, nc, p.size, p.F)
  \/ /\ Ready
     /\ element \in Hexahedra
     /\ \/ \E nc \in RepeatedCoordinates : LaplaceMatrix(<<Centroid>>, nc)
        \/ NiNjMatrix(<<Centroid>>)
  \/ Return

SpecRepeated == InitRepeated /\ [][NextRepeated]_vars

-----------------------------------------------------------------------------
(* A B-spline element whose connectivity is assigned again and again, the  *)
(* assigned connectivities kept                                            *)

InitAssigned ==
  /\ element \in {"bspline", "hex8"}
  /\ nconnectivity_ = 0
  /\ nodal_coordinates_ = NoMatrix
  /\ node_type_ = <<>>
  /\ spacing_length_ = I(0)
  /\ op = "none"
  /\ xi = NoVector
  /\ nodal_coordinates = NoMatrix
  /\ particle_size = NoVector
  /\ particle_size_after = NoVector
  /\ deformation_gradient = NoMatrix
  /\ ret = NoVector
  /\ console = <<>>
  /\ exception = <<>>
  /\ steps = <<>>
  /\ previous = NotKept
  /\ assigned = Kept(<<>>)
  /\ NoCell

NextAssigned ==
  \/ \E c \in Connectivities : InitialiseBSplineConnectivityProperties(c)
  \/ /\ Ready
     /\ \E x \in BSplinePoints, p \in Particles :
          \/ Shapefn(x, p.size, p.F)
          \/ GradShapefn(x, p.size, p.F)
  \/ Return

SpecAssigned == InitAssigned /\ [][NextAssigned]_vars

-----------------------------------------------------------------------------
(* The particle ids of a cell.  A thread calls add_particle_id,            *)
(* remove_particle_id or clear_particle_ids, carries the call out in the   *)
(* steps below and returns.  particles_.size() stays far below 2^32 here,  *)
(* so the conversions to unsigned and to bool lose nothing.                *)

\* nparticles(): particles_.size()
nparticles == Len(particles_)

\* a status() that takes one particle for none
status_second == Len(particles_) > 1

\* status(): particles_.size() as a bool
status == Len(particles_) # 0

\* std::find(particles_.begin(), particles_.end(), id) == particles_.end()
NotFound(list, id) == \A k \in 1 .. Len(list) : list[k] # id

\* particles_.erase(std::remove(particles_.begin(), particles_.end(), id),
\*                  particles_.end())
Erased(list, id) == SelectSeq(list, LAMBDA other : other # id)

\* the places of a call where the list is read or written
Mutating == {"add_section", "remove_section", "clear_section"}

\* another thread is reading or writing the list while thread t is
Racing(t) == \E u \in callers \ {t} : thread[u].pc \in Mutating

\* what a list can be after two threads wrote it at once (a data race): the
\* list as it was or as this thread meant it to be, cut at any length
RaceOutcomes(before, after) ==
  {SubSeq(before, 1, k) : k \in 0 .. Len(before)}
    \cup {SubSeq(after, 1, k) : k \in 0 .. Len(after)}

\* thread t writes the list
Mutate(t, after) ==
  particles_' \in IF Racing(t) THEN RaceOutcomes(particles_, after)
                  ELSE {after}

\* thread t moves on to the place next of its call
Goto(t, next) == thread' = [thread EXCEPT ![t] = next]

\* thread t calls add_particle_id(id)
AddParticleId(t, id) ==
  /\ thread[t] = Idle
  /\ Goto(t, [pc |-> "add_lock", id |-> id])
  /\ UNCHANGED <<OtherVars, ElementVars, particles_, cell_mutex_, callers>>

\* add_particle_id: the guard takes the mutex of the cell
AddLock(t) ==
  /\ thread[t].pc = "add_lock"
  /\ cell_mutex_ = NoThread
  /\ cell_mutex_' = t
  /\ Goto(t, [thread[t] EXCEPT !.pc = "add_section"])
  /\ UNCHANGED <<OtherVars, ElementVars, particles_, callers>>

\* add_particle_id: the id is appended unless it is in the list
AddSection(t) ==
  /\ thread[t].pc = "add_section"
  /\ \E status_ \in {NotFound(particles_, thread[t].id)} :
        /\ Mutate(t, IF status_ THEN Append(particles_, thread[t].id)
                     ELSE particles_)
        /\ Goto(t, [pc |-> "add_unlock", id |-> thread[t].id,
                    status |-> status_])
  /\ UNCHANGED <<OtherVars, ElementVars, cell_mutex_, callers>>

\* add_particle_id: the guard gives the mutex back and the call is over
AddUnlock(t) ==
  /\ thread[t].pc = "add_unlock"
  /\ cell_mutex_' = NoThread
  /\ Goto(t, [thread[t] EXCEPT !.pc = "add_done"])
  /\ UNCHANGED <<OtherVars, ElementVars, particles_, callers>>

\* thread t calls remove_particle_id(id)
RemoveParticleId(t, id) ==
  /\ thread[t] = Idle
  /\ Goto(t, [pc |-> "remove_lock", id |-> id])
  /\ UNCHANGED <<OtherVars, ElementVars, particles_, cell_mutex_, callers>>

\* remove_particle_id: the guard takes the mutex of the cell
RemoveLock(t) ==
  /\ thread[t].pc = "remove_lock"
  /\ cell_mutex_ = NoThread
  /\ cell_mutex_' = t
  /\ Goto(t, [thread[t] EXCEPT !.pc = "remove_section"])
  /\ UNCHANGED <<OtherVars, ElementVars, particles_, callers>>

\* remove_particle_id: the id is taken out of the list
RemoveSection(t) ==
  /\ thread[t].pc = "remove_section"
  /\ Mutate(t, Erased(particles_, thread[t].id))
  /\ Goto(t, [thread[t] EXCEPT !.pc = "remove_unlock"])
  /\ UNCHANGED <<OtherVars, ElementVars, cell_mutex_, callers>>

\* remove_particle_id: the guard gives the mutex back and the call is over
RemoveUnlock(t) ==
  /\ thread[t].pc = "remove_unlock"
  /\ cell_mutex_' = NoThread
  /\ Goto(t, [thread[t] EXCEPT !.pc = "remove_done"])
  /\ UNCHANGED <<OtherVars, ElementVars, particles_, callers>>

\* thread t calls clear_particle_ids(): no guard is taken
ClearParticleIds(t) ==
  /\ thread[t] = Idle
  /\ Goto(t, [pc |-> "clear_section"])
  /\ UNCHANGED <<OtherVars, ElementVars, particles_, cell_mutex_, callers>>

\* clear_particle_ids: particles_.clear(), and the call is over; cleared is
\* the number of ids the list had
ClearSection(t) ==
  /\ thread[t].pc = "clear_section"
  /\ Mutate(t, <<>>)
  /\ Goto(t, [pc |-> "clear_done", cleared |-> Len(particles_)])
  /\ UNCHANGED <<OtherVars, ElementVars, cell_mutex_, callers>>

\* thread t has returned from its call
CellReturn(t) ==
  /\ thread[t].pc \in {"add_done", "remove_done", "clear_done"}
  /\ Goto(t, Idle)
  /\ UNCHANGED <<OtherVars, ElementVars, particles_, cell_mutex_, callers>>

\* no element is looked at, and no call is made on one
NoElement ==
  /\ element = "none"
  /\ nconnectivity_ = 0
  /\ nodal_coordinates_ = NoMatrix
  /\ node_type_ = <<>>
  /\ spacing_length_ = I(0)
  /\ op = "none"
  /\ xi = NoVector
  /\ nodal_coordinates = NoMatrix
  /\ particle_size = NoVector
  /\ particle_size_after = NoVector
  /\ deformation_gradient = NoMatrix
  /\ ret = NoVector
  /\ console = <<>>
  /\ exception = <<>>
  /\ steps = <<>>
  /\ previous = NotKept
  /\ assigned = NoneKept

NextCell ==
  \E t \in callers :
    \/ \E id \in ParticleIds : AddParticleId(t, id)
    \/ AddLock(t)
    \/ AddSection(t)
    \/ AddUnlock(t)
    \/ \E id \in ParticleIds : RemoveParticleId(t, id)
    \/ RemoveLock(t)
    \/ RemoveSection(t)
    \/ RemoveUnlock(t)
    \/ ClearParticleIds(t)
    \/ ClearSection(t)
    \/ CellReturn(t)

\* one thread calls the cell: its calls come one after the other
InitCell ==
  /\ NoElement
  /\ CellConstructed
  /\ callers = {1}

SpecCell == InitCell /\ [][NextCell]_vars

\* the threads of a parallel loop call the same cell
InitCellThreads ==
  /\ NoElement
  /\ CellConstructed
  /\ callers = Threads

SpecCellThreads == InitCellThreads /\ [][NextCell]_vars

-----------------------------------------------------------------------------
(* The life of a cell: its nodes are attached, its geometry is computed,   *)
(* and it is then used and upgraded to a nonlocal element.  Each call is   *)
(* one step; cell.ret is what the call returned.                           *)

\* the ranks of the processes
MaxRank == 1

\* the particles that add to a local matrix, at most
MaxContributions == 2

\* the nodes a nonlocal element connects beyond the 8 of the cell
ExtraNodes == 2

\* the cell c with what its last call returned
Returning(c, r) == [c EXCEPT !.ret = r]

\* is_initialised(): the cell has nodes, an element type and a volume
is_initialised(c) ==
  /\ c.nodes_ # <<>>
  /\ c.element_ # "nullptr"
  /\ c.volume_ # lowest

\* add_node(local_id, node): the node is attached while the cell has room
add_node(c, local_id) ==
  IF Len(c.nodes_) < c.nnodes_ /\ local_id < c.nnodes_
  THEN Returning([c EXCEPT !.nodes_ = Append(@, local_id)], TRUE)
  ELSE Returning(c, FALSE)

\* an initialise() that forgets the volume when the nodes are not all there
initialise_resetting(c, nc) ==
  IF Len(c.nodes_) = c.nnodes_ /\ c.element_ # "nullptr"
  THEN Returning([c EXCEPT !.volume_ = compute_volume(nc)], TRUE)
  ELSE Returning([c EXCEPT !.volume_ = lowest], FALSE)

\* initialise(): the geometry is computed once all the nodes are attached
initialise(c, nc) ==
  IF Len(c.nodes_) = c.nnodes_ /\ c.element_ # "nullptr"
  THEN Returning([c EXCEPT !.volume_ = compute_volume(nc)], TRUE)
  ELSE Returning(c, FALSE)

\* initialise_element_stiffness_matrix(): the local matrix is set to zero
initialise_element_stiffness_matrix(c) ==
  Returning([c EXCEPT !.stiffness_matrix_ = <<0>>], TRUE)

\* compute_local_mass_matrix(shapefn, pvolume, multiplier): the contribution
\* of one particle is added to the local matrix
compute_local_mass_matrix(c) ==
  Returning([c EXCEPT !.stiffness_matrix_ = <<@[1] + 1>>], <<>>)

\* rank(mpi_rank): the rank is assigned, the rank before it kept
rank(c, mpi_rank) ==
  Returning([c EXCEPT !.previous_mpirank_ = c.rank_, !.rank_ = mpi_rank], <<>>)

\* upgrade_status(new_nnodes): the cell can take more nodes than it has
upgrade_status(c, new_nnodes) ==
  IF new_nnodes > c.nnodes_
  THEN Returning([c EXCEPT !.nnodes_ = new_nnodes], TRUE)
  ELSE Returning(c, FALSE)

\* an assign_nonlocal_elementptr that lets go of the element of the cell
\* before it looks at the node count
assign_nonlocal_elementptr_released(c, elementptr) ==
  IF Len(c.nodes_) = c.nnodes_ /\ c.nnodes_ > 8
  THEN Returning([c EXCEPT !.element_ = elementptr], TRUE)
  ELSE Returning([c EXCEPT !.element_ = "nullptr"], FALSE)

\* assign_nonlocal_elementptr(elementptr): the nonlocal element takes the
\* place of the element when the node count of the cell fits it
assign_nonlocal_elementptr(c, elementptr) ==
  IF Len(c.nodes_) = c.nnodes_ /\ c.nnodes_ > 8
  THEN Returning([c EXCEPT !.element_ = elementptr], TRUE)
  ELSE Returning(c, FALSE)

\* initialiase_nonlocal(nonlocal_properties): the connectivity properties of
\* the nonlocal element are derived
initialiase_nonlocal(c) ==
  IF c.element_ = "bspline"
  THEN Returning([c EXCEPT !.upgraded = TRUE], TRUE)
  ELSE Returning(c, FALSE)

\* a call on the cell that leaves the particle ids and the elements alone
CellCall(after) ==
  /\ \A t \in callers : thread[t] = Idle
  /\ cell' = after
  /\ UNCHANGED <<ElementVars, CellVars, locate, solver>>

AddNode(local_id) == CellCall(add_node(cell, local_id))

Initialise(nc) == \E after \in {initialise(cell, nc)} : CellCall(after)

InitialiseElementStiffnessMatrix ==
  /\ is_initialised(cell)
  /\ CellCall(initialise_element_stiffness_matrix(cell))

ComputeLocalMassMatrix ==
  /\ cell.stiffness_matrix_ # <<>>
  /\ cell.stiffness_matrix_[1] < MaxContributions
  /\ CellCall(compute_local_mass_matrix(cell))

Rank(mpi_rank) == CellCall(rank(cell, mpi_rank))

UpgradeStatus(new_nnodes) ==
  /\ is_initialised(cell)
  /\ CellCall(upgrade_status(cell, new_nnodes))

AssignNonlocalElementptr(elementptr) ==
  /\ is_initialised(cell)
  /\ CellCall(assign_nonlocal_elementptr(cell, elementptr))

InitialiaseNonlocal ==
  /\ is_initialised(cell)
  /\ CellCall(initialiase_nonlocal(cell))

\* the nodal coordinates of the cell: the unit cube, and the same squeezed
\* flat
FlatCube == [n \in 0 .. 7 |-> [UnitCube("hex8")[n] EXCEPT ![2] = I(0)]]
CellGeometries == {UnitCube("hex8"), FlatCube}

NextCellLife ==
  \/ \E local_id \in {Len(cell.nodes_), 8 + ExtraNodes} : AddNode(local_id)
  \/ \E nc \in CellGeometries : Initialise(nc)
  \/ InitialiseElementStiffnessMatrix
  \/ ComputeLocalMassMatrix
  \/ \E mpi_rank \in 0 .. MaxRank : Rank(mpi_rank)
  \/ \E new_nnodes \in {8, 8 + ExtraNodes} : UpgradeStatus(new_nnodes)
  \/ AssignNonlocalElementptr("bspline")
  \/ InitialiaseNonlocal
  \/ \E t \in callers :
       \/ AddParticleId(t, 0)
       \/ AddLock(t)
       \/ AddSection(t)
       \/ AddUnlock(t)
       \/ RemoveParticleId(t, 0)
       \/ RemoveLock(t)
       \/ RemoveSection(t)
       \/ RemoveUnlock(t)
       \/ ClearParticleIds(t)
       \/ ClearSection(t)
       \/ CellReturn(t)

SpecCellLife == InitCell /\ [][NextCellLife]_vars

-----------------------------------------------------------------------------
(* Point location: is_point_in_cell on an isoparametric 8-node cell.  The  *)
(* local coordinates of the point are found by Newton-Raphson iteration on *)
(* the residual X(xi) - point, one iteration a step.                       *)

\* the iterations of one point location, at most
MaxIterations == 2

\* the iteration has converged when |residual|^2 < 1 / ToleranceInverse
ToleranceInverse == 1000000000

\* a vector of NaN
NotANumber == [j \in 0 .. 2 |-> NonFinite]

\* X(xi): the point with the local coordinates x of the cell with the nodal
\* coordinates nc
real_coordinates(x0, nc0) ==
  With2(shapefn("hex8", x0), nc0, LAMBDA sf, nc :
    Eval([j \in 0 .. 2 |-> RSum([n \in 0 .. 7 |-> sf[n] ** nc[n][j]], 0, 7)]))

\* the residual X(xi) - point
residual(x, point, nc) ==
  IF x = NotANumber THEN NotANumber
  ELSE VSub(real_coordinates(x, nc), point)

\* the norm of the residual F is below the tolerance (never so for NaN)
below_tolerance(F) ==
  /\ F # NotANumber
  /\ With(Dot(F, F), LAMBDA norm2 :
       norm2[1] = 0 \/ norm2[2] \div norm2[1] >= ToleranceInverse)

\* one Newton-Raphson iteration: xi - (J^-1)^T F with J the Jacobian of the
\* element at xi; not a number when J is singular
newton_raphson(x0, point, nc) ==
  With(x0, LAMBDA x :
    IF x = NotANumber THEN NotANumber
    ELSE With(Inverse3(jacobian("hex8", x, nc).ret), LAMBDA inverse :
           IF ~IsFinite(inverse) THEN NotANumber
           ELSE With(residual(x, point, nc), LAMBDA F :
                  Eval([i \in 0 .. 2 |->
                     x[i] (-) RSum([j \in 0 .. 2 |-> inverse[j][i] ** F[j]],
                                   0, 2)]))))

\* the local coordinates xi lie in the unit cell
in_unit_cell(x) ==
  /\ x # NotANumber
  /\ \A i \in 0 .. 2 : ~RLess(x[i], I(0 - 1)) /\ ~RLess(I(1), x[i])

\* an is_point_in_cell that takes the local coordinates of the last
\* iteration whether the iteration converged or not
is_point_in_cell_unconverged(l) == in_unit_cell(l.xi)

\* what is_point_in_cell returns when the iteration has stopped: a point whose
\* iteration did not converge is not in the cell
is_point_in_cell(l) == l.converged /\ in_unit_cell(l.xi)

\* a call on the point location that leaves the rest alone
LocateStep(after) ==
  /\ locate' = after
  /\ UNCHANGED <<ElementVars, CellVars, cell, solver>>

\* is_point_in_cell(point, xi) is called; guess is the first guess of the
\* local coordinates, from the affine approximation
IsPointInCell(point, nc, guess) ==
  /\ locate = NotLocating
  /\ LocateStep([pc |-> "iterate", point |-> point, nc |-> nc, xi |-> guess,
                 iterations |-> 0])

\* the iteration goes on: the residual is not below the tolerance and the
\* maximum iteration count is not reached
NewtonIteration ==
  /\ locate.pc = "iterate"
  /\ locate.iterations < MaxIterations
  /\ ~below_tolerance(residual(locate.xi, locate.point, locate.nc))
  /\ \E next \in {newton_raphson(locate.xi, locate.point, locate.nc)} :
        LocateStep([locate EXCEPT !.xi = next, !.iterations = @ + 1])

\* the iteration stops: the residual is below the tolerance or the maximum
\* iteration count is reached
NewtonStop ==
  /\ locate.pc = "iterate"
  /\ \E done \in {below_tolerance(residual(locate.xi, locate.point,
                                           locate.nc))} :
        /\ done \/ locate.iterations = MaxIterations
        /\ LocateStep([pc |-> "stopped", point |-> locate.point,
                       nc |-> locate.nc, xi |-> locate.xi,
                       iterations |-> locate.iterations, converged |-> done])

\* is_point_in_cell returns
IsPointInCellReturn ==
  /\ locate.pc = "stopped"
  /\ LocateStep([pc |-> "returned", point |-> locate.point, nc |-> locate.nc,
                 xi |-> locate.xi, iterations |-> locate.iterations,
                 converged |-> locate.converged,
                 ret |-> is_point_in_cell(locate)])

\* the caller has taken the result
LocateDone ==
  /\ locate.pc = "returned"
  /\ LocateStep(NotLocating)

\* the cells: the unit cube, a sheared cell, a cell whose upper face is half
\* as wide as its lower face, a cell with one edge moved out to (3, 3), and
\* the cube squeezed flat
Tapered ==
  [n \in 0 .. 7 |->
     IF UnitCube("hex8")[n][2] = I(1)
     THEN [UnitCube("hex8")[n] EXCEPT ![0] = c05 ** @, ![1] = c05 ** @]
     ELSE UnitCube("hex8")[n]]
Bulged ==
  [n \in 0 .. 7 |->
     IF n \in {2, 6}
     THEN [UnitCube("hex8")[n] EXCEPT ![0] = I(3), ![1] = I(3)]
     ELSE UnitCube("hex8")[n]]
LocateCells == {UnitCube("hex8"), Sheared(UnitCube("hex8")), Tapered, FlatCube}

\* the points looked for, inside the unit cube, on it and outside
LocatePoints ==
  {Vec(<<I(0), I(0), I(0)>>), Vec(<<c05, RNeg(c05), c05>>),
   Vec(<<I(1), I(1), I(1)>>), Vec(<<I(1), I(1), I(0)>>),
   Vec(<<I(3), I(0), I(0)>>)}

\* the first guesses
LocateGuesses ==
  {Vec(<<I(0), I(0), I(0)>>), Vec(<<c05, c05, RNeg(c05)>>),
   Vec(<<I(0 - 1), I(0 - 1), I(0)>>)}

\* the point locations made: all of the above, and one on the cell with
\* the edge moved out
LocateCases ==
  (LocatePoints \X LocateCells \X LocateGuesses)
    \cup {<<Vec(<<I(1), I(1), I(0)>>), Bulged, Vec(<<I(0 - 1), I(0 - 1), I(0)>>)>>}

NextLocate ==
  \/ \E case \in LocateCases : IsPointInCell(case[1], case[2], case[3])
  \/ NewtonIteration
  \/ NewtonStop
  \/ IsPointInCellReturn
  \/ LocateDone

\* a call that is being carried out goes on
SpecLocate ==
  /\ InitCell
  /\ [][NextLocate]_vars
  /\ WF_vars(NewtonIteration \/ NewtonStop \/ IsPointInCellReturn)

-----------------------------------------------------------------------------
(* The explicit solver (mpm_explicit.tcc).  solver.calls is the list of    *)
(* the calls solve() has made on the mesh, the scheme, the contact and the *)
(* base class, in order; solver.todo holds the calls of the straight-line  *)
(* piece of code solve() is in, which are made one a step.  s0 is step_    *)
(* when the main loop is reached, iterations counts the iterations begun   *)
(* and mark is the length of calls when the last of them began;            *)
(* check_resume is what checkpoint_resume() returned, if it was called.    *)

\* the steps of an analysis, at most
MaxSteps == 2

\* nload_balance_steps_: the load balancer runs at every step after the first
nload_balance_steps_ == 1

\* a call with its argument (0 when it has none or a false one, 1 for true)
Called(name, argument) == <<name, argument>>

\* the configurations: the analysis settings solve() reads, the step count,
\* the build (with or without MPI graph partitioning), and the interface_
\* member as the base class has left it when MPMExplicit is constructed
Configurations ==
  [resume : BOOLEAN, repartition : BOOLEAN, interface : BOOLEAN,
   absorbing_boundary_ : BOOLEAN, graph_partitioning : BOOLEAN,
   nsteps_ : 0 .. MaxSteps, interface_ : BOOLEAN]

\* MPMExplicit(io): the contact scheme is chosen by the interface_ member
MPMExplicit(cfg) ==
  [pc |-> "constructed", cfg |-> cfg, interface_ |-> cfg.interface_,
   contact_ |-> IF cfg.interface_ THEN "ContactFriction" ELSE "Contact",
   resume |-> FALSE, repartition |-> FALSE, check_resume |-> FALSE,
   step_ |-> 0, s0 |-> 0,
   iterations |-> 0, mark |-> 0, todo |-> <<>>, calls |-> <<>>]

\* a resume that a failed checkpoint_resume() does not call off
resume_kept(resume, check_resume) == resume

\* resume after checkpoint_resume(): called off when it failed
resume_checked(resume, check_resume) == resume /\ check_resume

\* the calls of the resume branch and of the initialise branch
resume_or_initialise(resume, repartition) ==
  IF resume
  THEN <<IF repartition THEN Called("mpi_domain_decompose", 0)
         ELSE Called("resume_domain_cell_ranks", 0),
         Called("particle_entity_sets", 0),
         Called("particle_velocity_constraints", 0)>>
  ELSE <<Called("initialise_particles", 0), Called("compute_mass", 0),
         Called("mpi_domain_decompose", 1)>>

\* the calls between the branch and the main loop
before_loop(interface, absorbing_boundary, resume, step) ==
  (IF interface \/ absorbing_boundary
   THEN <<Called("create_nodal_properties", 0)>> ELSE <<>>)
    \o <<Called("initialise_loads", 0)>>
    \o (IF ~resume THEN <<Called("write_outputs", step)>> ELSE <<>>)

\* a main loop that writes the outputs of a step under the index of the step
loop_body_late(absorbing_boundary, graph_partitioning, step) ==
  (IF graph_partitioning /\ step % nload_balance_steps_ = 0 /\ step # 0
   THEN <<Called("mpi_domain_decompose", 0)>> ELSE <<>>)
    \o <<Called("inject_particles", step), Called("scheme_initialise", 0),
         Called("contact_initialise", 0),
         Called("compute_nodal_kinematics", 0),
         Called("compute_contact_forces", 0),
         Called("precompute_stress_strain", 0),
         Called("compute_forces", step)>>
    \o (IF absorbing_boundary
        THEN <<Called("absorbing_boundary_properties", 0),
               Called("nodal_absorbing_constraints", 0)>> ELSE <<>>)
    \o <<Called("compute_particle_kinematics", step),
         Called("postcompute_nodal_kinematics", 0),
         Called("postcompute_stress_strain", 0),
         Called("locate_particles", 0)>>
    \o (IF graph_partitioning
        THEN <<Called("transfer_halo_particles", 0)>> ELSE <<>>)
    \o <<Called("write_outputs", step)>>

\* a main loop that updates the stress before the nodal kinematics
loop_body_stress_first(absorbing_boundary, graph_partitioning, step) ==
  (IF graph_partitioning /\ step % nload_balance_steps_ = 0 /\ step # 0
   THEN <<Called("mpi_domain_decompose", 0)>> ELSE <<>>)
    \o <<Called("inject_particles", step), Called("scheme_initialise", 0),
         Called("contact_initialise", 0),
         Called("precompute_stress_strain", 0),
         Called("compute_nodal_kinematics", 0),
         Called("compute_contact_forces", 0),
         Called("compute_forces", step)>>
    \o (IF absorbing_boundary
        THEN <<Called("absorbing_boundary_properties", 0),
               Called("nodal_absorbing_constraints", 0)>> ELSE <<>>)
    \o <<Called("compute_particle_kinematics", step),
         Called("postcompute_nodal_kinematics", 0),
         Called("postcompute_stress_strain", 0),
         Called("locate_particles", 0)>>
    \o (IF graph_partitioning
        THEN <<Called("transfer_halo_particles", 0)>> ELSE <<>>)
    \o <<Called("write_outputs", step + 1)>>

\* the calls of one iteration of the main loop, at step step_
loop_body(absorbing_boundary, graph_partitioning, step) ==
  (IF graph_partitioning /\ step % nload_balance_steps_ = 0 /\ step # 0
   THEN <<Called("mpi_domain_decompose", 0)>> ELSE <<>>)
    \o <<Called("inject_particles", step), Called("scheme_initialise", 0),
         Called("contact_initialise", 0),
         Called("compute_nodal_kinematics", 0),
         Called("compute_contact_forces", 0),
         Called("precompute_stress_strain", 0),
         Called("compute_forces", step)>>
    \o (IF absorbing_boundary
        THEN <<Called("absorbing_boundary_properties", 0),
               Called("nodal_absorbing_constraints", 0)>> ELSE <<>>)
    \o <<Called("compute_particle_kinematics", step),
         Called("postcompute_nodal_kinematics", 0),
         Called("postcompute_stress_strain", 0),
         Called("locate_particles", 0)>>
    \o (IF graph_partitioning
        THEN <<Called("transfer_halo_particles", 0)>> ELSE <<>>)
    \o <<Called("write_outputs", step + 1)>>

\* a step of the solver that leaves the rest alone
SolverStep(after) ==
  /\ solver' = after
  /\ UNCHANGED <<ElementVars, CellVars, cell, locate>>

\* the solver is constructed
Construct(cfg) ==
  /\ solver = NoSolver
  /\ SolverStep(MPMExplicit(cfg))

\* solve() begins: the analysis settings are read, the materials and the
\* mesh are initialised
SolveBegin ==
  /\ solver.pc = "constructed"
  /\ SolverStep([solver EXCEPT
       !.pc = "check_resume",
       !.resume = solver.cfg.resume,
       !.repartition = solver.cfg.repartition,
       !.interface_ = solver.cfg.interface,
       !.todo = <<Called("initialise_materials", 0),
                  Called("initialise_mesh", 0)>>])

\* the next call of the piece of code solve() is in
CallNext ==
  /\ solver.pc # "none"
  /\ solver.todo # <<>>
  /\ SolverStep([solver EXCEPT !.calls = Append(@, Head(solver.todo)),
                               !.todo = Tail(@)])

\* if (resume) checkpoint_resume(): it fails, or it succeeds and leaves the
\* step of the checkpoint in step_
CheckpointResume ==
  /\ solver.pc = "check_resume"
  /\ solver.todo = <<>>
  /\ IF solver.resume
     THEN \E check_resume \in BOOLEAN, step \in 0 .. MaxSteps :
            /\ ~check_resume => step = solver.step_
            /\ SolverStep([solver EXCEPT
                 !.pc = "resume_or_initialise",
                 !.calls = Append(@, Called("checkpoint_resume", 0)),
                 !.step_ = step,
                 !.check_resume = check_resume,
                 !.resume = resume_checked(solver.resume, check_resume)])
     ELSE SolverStep([solver EXCEPT !.pc = "resume_or_initialise"])

\* the resume branch or the initialise branch
ResumeOrInitialise ==
  /\ solver.pc = "resume_or_initialise"
  /\ SolverStep([solver EXCEPT
       !.pc = "before_loop",
       !.todo = resume_or_initialise(solver.resume, solver.repartition)])

\* nodal properties, loads and the initial outputs
BeforeLoop ==
  /\ solver.pc = "before_loop"
  /\ solver.todo = <<>>
  /\ SolverStep([solver EXCEPT
       !.pc = "loop",
       !.s0 = solver.step_,
       !.todo = before_loop(solver.interface_,
                            solver.cfg.absorbing_boundary_, solver.resume,
                            solver.step_)])

\* for (; step_ < nsteps_; ...): one more iteration, or the loop is left
LoopTest ==
  /\ solver.pc = "loop"
  /\ solver.todo = <<>>
  /\ IF solver.step_ < solver.cfg.nsteps_
     THEN SolverStep([solver EXCEPT
            !.pc = "increment",
            !.iterations = @ + 1,
            !.mark = Len(solver.calls),
            !.todo = loop_body(solver.cfg.absorbing_boundary_,
                               solver.cfg.graph_partitioning, solver.step_)])
     ELSE SolverStep([solver EXCEPT !.pc = "return"])

\* ++step_
LoopIncrement ==
  /\ solver.pc = "increment"
  /\ solver.todo = <<>>
  /\ SolverStep([solver EXCEPT !.pc = "loop", !.step_ = @ + 1])

\* return status
SolveReturn ==
  /\ solver.pc = "return"
  /\ SolverStep([solver EXCEPT !.pc = "returned"])

NextSolver ==
  \/ \E cfg \in Configurations : Construct(cfg)
  \/ SolveBegin
  \/ CallNext
  \/ CheckpointResume
  \/ ResumeOrInitialise
  \/ BeforeLoop
  \/ LoopTest
  \/ LoopIncrement
  \/ SolveReturn

SpecSolver == InitCell /\ [][NextSolver]_vars

-----------------------------------------------------------------------------
(* Partition of unity and consistency of the gradients *)

\* e_i, the unit vector of axis i
UnitVector(i) == [j \in 0 .. 2 |-> IF j = i THEN I(1) ELSE I(0)]

\* The partial derivative of the shapefn polynomial N_n of element e with
\* respect to xi_i at x.  N_n has degree at most 2 in each xi_i (a product of
\* factors linear in xi_i, at most two of them, or of 1 - xi_i^2 with factors
\* free of xi_i), and for p of degree <= 2, (p(t + 1) - p(t - 1)) / 2 = p'(t)
\* exactly.
DShapefn(e, x, n, i) ==
  c05 ** (shapefn(e, VAdd(x, UnitVector(i)))[n]
            (-) shapefn(e, VSub(x, UnitVector(i)))[n])

\* C1: for the 8-node and the 20-node element the entries of shapefn(xi,
\* particle_size, deformation_gradient) sum to exactly 1 at every xi of the
\* grid on [-1,1]^3, whatever particle_size and deformation_gradient are.
C1_PartitionOfUnity ==
  (op = "shapefn" /\ element \in Hexahedra) =>
     /\ DOMAIN ret = 0 .. nfunctions(element) - 1
     /\ RSum(ret, 0, nfunctions(element) - 1) = I(1)

C1_Witness ==
  /\ op = "shapefn"
  /\ element = "hex20"
  /\ xi = Vec(<<c05, RNeg(c05), I(1)>>)
  /\ particle_size = Vec(<<I(1), c05, I(2)>>)
  /\ deformation_gradient = Identity3
  /\ ret[18] # I(0)
  /\ RSum(ret, 0, 19) = I(1)

\* C2: for the 20-node element grad_shapefn(xi)(n, i) is the exact partial
\* derivative of N_n with respect to xi_i, for every node n, axis i and xi.
C2_Grad20IsDerivative ==
  (op = "grad_shapefn" /\ element = "hex20") =>
     \A n \in 0 .. 19, i \in 0 .. 2 : ret[n][i] = DShapefn("hex20", xi, n, i)

\* C3: for the 8-node element grad_shapefn(xi)(n, i) is the exact partial
\* derivative of N_n with respect to xi_i, for every node n, axis i and xi.
C3_Grad8IsDerivative ==
  (op = "grad_shapefn" /\ element = "hex8") =>
     \A n \in 0 .. 7, i \in 0 .. 2 : ret[n][i] = DShapefn("hex8", xi, n, i)

C3_Witness ==
  /\ op = "grad_shapefn"
  /\ element = "hex8"
  /\ xi = Vec(<<c05, RNeg(c05), I(1)>>)
  /\ ret[6][0] = Rat(1, 8)
  /\ ret[6][0] = DShapefn("hex8", xi, 6, 0)

-----------------------------------------------------------------------------
(* The persisted particle record *)

XYZ(p) == <<p \o "_x", p \o "_y", p \o "_z">>

\* svars_0, ..., svars_(n-1)
RECURSIVE SvarsNames(_)
SvarsNames(n) ==
  IF n = 0 THEN <<>> ELSE Append(SvarsNames(n - 1), "svars_" \o ToString(n - 1))

\* the documented layout of the record
RecordLayout ==
  Vec(<<"id", "mass", "volume", "pressure">>
      \o XYZ("coord") \o XYZ("displacement") \o XYZ("nsize")
      \o XYZ("velocity") \o XYZ("acceleration")
      \o <<"stress_xx", "stress_yy", "stress_zz", "tau_xy", "tau_yz", "tau_xz">>
      \o <<"strain_xx", "strain_yy", "strain_zz",
           "gamma_xy", "gamma_yz", "gamma_xz">>
      \o <<"epsilon_v", "status", "cell_id", "material_id", "nstate_vars">>
      \o SvarsNames(20))

\* C4: the persisted particle record lists its fields in exactly the
\* documented order, none missing, repeated or added, and the offset, size
\* and name tables have the same length, entry k of each referring to the
\* same field.
C4_RecordLayout ==
  /\ field_names = RecordLayout
  /\ \A j, k \in DOMAIN field_names : field_names[j] = field_names[k] => j = k
  /\ DOMAIN dst_offset = DOMAIN field_names
  /\ DOMAIN dst_sizes = DOMAIN field_names
  /\ \A k \in DOMAIN field_names :
       /\ FieldName(dst_offset[k]) = field_names[k]
       /\ FieldName(dst_sizes[k]) = field_names[k]
  /\ op = "table_field" =>
       /\ ret.name = RecordLayout[ret.index]
       /\ FieldName(ret.offset) = ret.name
       /\ ret.size = ret.offset

C4_Witness ==
  /\ op = "table_field"
  /\ ret.index = 24
  /\ ret.name = "tau_xz"
  /\ ret.offset = Member("tau_xz")
  /\ ret.size = Member("tau_xz")

\* the storage type of each field of the record, as documented: a 64-bit
\* integer for id and cell_id, a boolean for status, an unsigned integer for
\* material_id and nstate_vars, a double for every other field
StorageType(name) ==
  CASE name \in {"id", "cell_id"} -> "H5T_NATIVE_LLONG"
    [] name = "status" -> "H5T_NATIVE_HBOOL"
    [] name \in {"material_id", "nstate_vars"} -> "H5T_NATIVE_UINT"
    [] OTHER -> "H5T_NATIVE_DOUBLE"

\* C5: for every field index k, field_type[k] is the storage type of the
\* field named field_names[k], and field_type has one entry for each of the
\* fields listed in field_names.
C5_FieldTypes ==
  op = "table_field" =>
     /\ ret.index \in DOMAIN field_type_initialisers
     /\ ret.type = StorageType(ret.name)

-----------------------------------------------------------------------------
(* Volume, B-matrix and Jacobian *)

\* the side of a cell along axis j: the largest less the smallest coordinate
ColumnMax(nc, j) ==
  CHOOSE v \in {nc[n][j] : n \in DOMAIN nc} :
    \A w \in {nc[n][j] : n \in DOMAIN nc} : ~RLess(v, w)
ColumnMin(nc, j) ==
  CHOOSE v \in {nc[n][j] : n \in DOMAIN nc} :
    \A w \in {nc[n][j] : n \in DOMAIN nc} : ~RLess(w, v)
SideLength(nc, j) == ColumnMax(nc, j) (-) ColumnMin(nc, j)

\* C6: compute_volume of the nodal coordinates of an axis-aligned box given
\* in the element's node order returns the product of the three side
\* lengths, and 8 for the cube with the corners (+-1, +-1, +-1).
C6_BoxVolume ==
  op = "compute_volume" =>
     /\ nodal_coordinates \in Boxes(element)
     /\ ret = SideLength(nodal_coordinates, 0) ** SideLength(nodal_coordinates, 1)
                ** SideLength(nodal_coordinates, 2)
     /\ nodal_coordinates = UnitCube(element) => ret = I(8)

C6_Witness ==
  /\ op = "compute_volume"
  /\ element = "hex20"
  /\ nodal_coordinates =
       Box(unit_cell_coordinates20, Vec(<<I(1), I(-2), c05>>),
           Vec(<<c05, I(1), Rat(3, 2)>>))
  /\ ret = I(6)

\* the sum over the nodes n of bmatrix[n]
SumOfBlocks(blocks) ==
  [r \in 0 .. 5 |-> [c \in 0 .. 2 |->
     RSum([n \in DOMAIN blocks |-> blocks[n][r][c]], 0, Rows(blocks) - 1)]]

\* C7: for the unit cube, bmatrix at the centroid gives zero strain for a
\* displacement that is the same at every node: the sum over the nodes of
\* bmatrix[n] is the 6x3 zero matrix, for the 8-node and the 20-node element.
C7_RigidTranslation ==
  (/\ op = "bmatrix"
   /\ element \in Hexahedra
   /\ xi = Centroid
   /\ nodal_coordinates = UnitCube(element)) =>
     /\ DOMAIN ret = 0 .. nfunctions(element) - 1
     /\ SumOfBlocks(ret) = Zero(6, 3)

C7_Witness ==
  /\ op = "bmatrix"
  /\ element = "hex20"
  /\ xi = Centroid
  /\ nodal_coordinates = UnitCube("hex20")
  /\ ret[8][1][1] = Rat(-1, 4)
  /\ SumOfBlocks(ret) = Zero(6, 3)

\* the sizes of the nodal coordinates do not fit the element
Mismatched(nc) == Rows(nc) # nfunctions(element) \/ Cols(nc) # 3

\* C8: laplace_matrix called with nodal coordinates whose row count differs
\* from nfunctions() or whose column count differs from the dimension logs
\* the error and returns a zero or empty result, without carrying out the
\* gradient-times-coordinates products on the mismatched matrices.
C8_LaplaceMismatch ==
  (op = "laplace_matrix" /\ Mismatched(nodal_coordinates)) =>
     /\ console # <<>>
     /\ ret \in {Zero(nfunctions(element), nfunctions(element)), <<>>}
     /\ steps = <<>>

\* C9: jacobian returns grad_shapefn(xi)^T * nodal_coordinates when the
\* nodal coordinates have as many rows as grad_shapefn and as many columns
\* as xi has entries, and otherwise logs and returns the 3x3 zero matrix,
\* for the 8-node, the 20-node and the B-spline element.
C9_Jacobian ==
  op = "jacobian" =>
     IF Mismatched(nodal_coordinates)
     THEN console # <<>> /\ ret = Zero(3, 3)
     ELSE /\ console = <<>>
          /\ With(grad_shapefn(element, xi), LAMBDA grad :
               \A i, j \in 0 .. 2 :
                  ret[i][j] =
                    RSum([n \in DOMAIN nodal_coordinates |->
                            grad[n][i] ** nodal_coordinates[n][j]],
                         0, Rows(nodal_coordinates) - 1))

C9_Witness ==
  /\ op = "jacobian"
  /\ element = "bspline"
  /\ nconnectivity_ = 64
  /\ Rows(nodal_coordinates) = 63
  /\ console = <<JacobianError>>
  /\ ret = Zero(3, 3)

\* C10: bmatrix called with nodal coordinates whose row count differs from
\* the gradient's or whose column count differs from the dimension logs and
\* returns an empty list of blocks, and never inverts a Jacobian built from
\* the mismatched matrices, for the 8-node, the 20-node and the B-spline
\* element.
C10_BmatrixMismatch ==
  (op = "bmatrix" /\ Mismatched(nodal_coordinates)) =>
     /\ console # <<>>
     /\ ret = <<>>
     /\ steps = <<>>

C10_Witness ==
  /\ op = "bmatrix"
  /\ element = "bspline"
  /\ nconnectivity_ = 64
  /\ Cols(nodal_coordinates) = 2
  /\ console = <<BMatrixError>>
  /\ ret = <<>>
  /\ steps = <<>>

-----------------------------------------------------------------------------
(* Physical gradients and the B-matrix *)

\* C11: for the 8-node and the 20-node element and nodal coordinates with a
\* non-singular Jacobian J = grad_shapefn(xi)^T * nodal_coordinates,
\* dn_dx(xi, nodal_coordinates, ...) is grad_shapefn(xi) * (J^-1)^T, that
\* is, dn_dx * J^T is grad_shapefn(xi); for an axis-aligned box column i of
\* dn_dx is column i of grad_shapefn divided by the i-th half side length.
C11_DnDx ==
  (/\ op = "dn_dx"
   /\ element \in Hexahedra
   /\ ~Mismatched(nodal_coordinates)) =>
     With2(grad_shapefn(element, xi), nodal_coordinates, LAMBDA grad, nc :
       With(TransposeTimes(grad, nc), LAMBDA J :
         Det3(J) # I(0) =>
           /\ DOMAIN ret = 0 .. nfunctions(element) - 1
           /\ Times(ret, Transpose(J)) = grad
           /\ nc \in Boxes(element) =>
                \A n \in DOMAIN grad, i \in 0 .. 2 :
                   ret[n][i] = RDiv(grad[n][i], c05 ** SideLength(nc, i))))

\* the 6x3 matrix with the rows (g0,0,0), (0,g1,0), (0,0,g2), (g1,g0,0),
\* (0,g2,g1), (g2,0,g0)
StrainBlock(g) ==
  [r \in 0 .. 5 |-> [c \in 0 .. 2 |->
     CASE r = c -> g[r]
       [] r = 3 /\ c = 0 -> g[1]
       [] r = 3 /\ c = 1 -> g[0]
       [] r = 4 /\ c = 1 -> g[2]
       [] r = 4 /\ c = 2 -> g[1]
       [] r = 5 /\ c = 0 -> g[2]
       [] r = 5 /\ c = 2 -> g[0]
       [] OTHER -> I(0)]]

C13_BSplineBlocks ==
  (/\ op = "bmatrix"
   /\ element = "bspline"
   /\ nconnectivity_ > 8
   /\ ~Mismatched(nodal_coordinates)) =>
     /\ DOMAIN ret = 0 .. nconnectivity_ - 1
     /\ \A r \in dn_dx("bspline", xi, nodal_coordinates) :
          \A n \in 0 .. nconnectivity_ - 1 :
             /\ ret[n][0][0] = r.ret[n][0]
             /\ ret[n][1][1] = r.ret[n][1]
             /\ ret[n][2][2] = r.ret[n][2]

-----------------------------------------------------------------------------
(* Capabilities the plain hexahedron lacks *)

Unsupported ==
  {"initialise_bspline_connectivity_properties",
   "initialise_lme_connectivity_properties",
   "natural_coordinates_analytical"}

\* C14: on a plain 8-node or 20-node element, every call of
\* initialise_bspline_connectivity_properties,
\* initialise_lme_connectivity_properties and natural_coordinates_analytical
\* ends in an explicit error (an exception, with nothing returned) and
\* leaves the element unchanged, and isvalid_natural_coordinates_analytical()
\* is false.
C14_Unsupported ==
  [][/\ (element \in Hexahedra /\ op' \in Unsupported) =>
          /\ exception' # <<>>
          /\ ret' = NoVector
          /\ UNCHANGED Members
     /\ op' = "isvalid_natural_coordinates_analytical" => ret' = FALSE]_vars

C14_Witness ==
  /\ op = "natural_coordinates_analytical"
  /\ element = "hex20"
  /\ xi = Vec(<<c05, c05, RNeg(c05)>>)
  /\ exception = <<AnalyticalNotImplemented>>
  /\ ret = NoVector
  /\ nconnectivity_ = 0

-----------------------------------------------------------------------------
(* The B-spline element *)

\* C15: when the connectivity of the B-spline element has exactly 8 nodes,
\* its shapefn and grad_shapefn return, for every xi, exactly the results of
\* the 8-node hexahedron, whatever node types and nodal coordinates were
\* installed.
C15_EightNodeFallBack ==
  (element = "bspline" /\ nconnectivity_ = 8) =>
     /\ op = "shapefn" => ret = shapefn("hex8", xi)
     /\ op = "grad_shapefn" => ret = grad_shapefn("hex8", xi)

C15_Witness ==
  /\ element = "bspline"
  /\ nconnectivity_ = 8
  /\ nodal_coordinates_ = OffsetBox("hex8")
  /\ node_type_[0][0] = 1
  /\ op = "shapefn"
  /\ xi = Vec(<<c05, RNeg(c05), I(1)>>)
  /\ ret = shapefn8(xi)
  /\ ret[6] = Rat(3, 16)

\* the point xi is inside the cell
Inside(x) == \A j \in 0 .. 2 : RLess(I(-1), x[j]) /\ RLess(x[j], I(1))

BasisValue(p, n, j) ==
  LET c == nodal_coordinates_[n][j]
      t == node_type_[n][j]
  IN  kernel(p, c, t, Tpolynomial, 0)
        (+) (CASE t = 1 -> kernel(p, c, 5, Tpolynomial, 0)
               [] t = 4 -> kernel(p, c, 6, Tpolynomial, 0)
               [] OTHER -> I(0))

\* the derivative of the basis of node n on axis i, with the same additions
BasisDerivative(p, n, i) ==
  LET c == nodal_coordinates_[n][i]
      t == node_type_[n][i]
  IN  gradient(p, c, t, Tpolynomial)
        (+) (CASE t = 1 -> gradient(p, c, 5, Tpolynomial)
               [] t = 4 -> gradient(p, c, 6, Tpolynomial)
               [] OTHER -> I(0))

\* the slope of BasisValue over [p - 1/8, p + 1/8]: its derivative at p when
\* no knot lies inside the interval, the basis being quadratic between knots
BasisSlope(p, n, i) ==
  I(4) ** (BasisValue(p (+) Rat(1, 8), n, i)
             (-) BasisValue(p (-) Rat(1, 8), n, i))

\* C17: for the B-spline element grad_shapefn(n, i) is the derivative of the
\* basis on axis i times the basis values on the two other axes, the values
\* whose product over the three axes shapefn returns; the type-5 term is
\* added where node n has type 1, the type-6 term where it has type 4, and
\* no other type gets an addition, in the derivative and in the values.
C17_BSplineGradient ==
  (/\ op = "grad_shapefn"
   /\ element = "bspline"
   /\ nconnectivity_ > 8) =>
     With2(pcoord(xi), shapefn("bspline", xi), LAMBDA pc, N :
       /\ DOMAIN ret = 0 .. nconnectivity_ - 1
       /\ \A n \in 0 .. nconnectivity_ - 1 :
            With(Eval([j \in 0 .. 2 |-> BasisValue(pc[j], n, j)]), LAMBDA v :
              /\ N[n] = v[0] ** v[1] ** v[2]
              /\ ret[n][0] = BasisDerivative(pc[0], n, 0) ** v[1] ** v[2]
              /\ ret[n][1] = BasisDerivative(pc[1], n, 1) ** v[0] ** v[2]
              /\ ret[n][2] = BasisDerivative(pc[2], n, 2) ** v[0] ** v[1]
              /\ \A i \in 0 .. 2 :
                   pc[i] \notin {I(-1), I(0), I(1)} =>
                     BasisDerivative(pc[i], n, i) = BasisSlope(pc[i], n, i)))

C17_Witness ==
  /\ op = "grad_shapefn"
  /\ element = "bspline"
  /\ nconnectivity_ = 36
  /\ xi = Vec(<<RNeg(c05), c05, c025>>)
  /\ \E n \in 0 .. 35 :
        /\ node_type_[n][0] = 1
        /\ node_type_[n][1] = 4
        /\ gradient(pcoord(xi)[0], nodal_coordinates_[n][0], 5, Tpolynomial)
             # I(0)
        /\ kernel(pcoord(xi)[1], nodal_coordinates_[n][1], 6, Tpolynomial, 0)
             # I(0)
        /\ ret[n][0] # I(0)

-----------------------------------------------------------------------------
(* The evaluation functions as pure functions *)

Evaluations ==
  {"shapefn", "grad_shapefn", "jacobian", "dn_dx", "bmatrix", "ni_nj_matrix",
   "laplace_matrix"}

\* the calls a and b are calls of the same function with equal arguments
SameArguments(a, b) ==
  /\ a.op = b.op
  /\ a.xi = b.xi
  /\ a.nodal_coordinates = b.nodal_coordinates
  /\ a.particle_size = b.particle_size
  /\ a.deformation_gradient = b.deformation_gradient

\* C18: shapefn, grad_shapefn, jacobian, dn_dx, bmatrix, ni_nj_matrix and
\* laplace_matrix leave the stored state of the element and the caller's
\* particle_size unchanged, and a call with the arguments of the call made
\* before it, the connectivity not assigned again in between, returns what
\* that call returned, for the hexahedra and the B-spline element.
C18_Pure ==
  [][op' \in Evaluations =>
       /\ UNCHANGED Members
       /\ particle_size_after' = particle_size'
       /\ SameArguments(previous, TheCall') => ret' = previous.ret]_vars

\* C18 for the calls whose arguments fit the element, and for the mismatched
\* calls of the functions that check the sizes
C18_PureWhereDefined ==
  [][(op' \in Evaluations /\ steps' # <<ProductStep>>) =>
       /\ UNCHANGED Members
       /\ particle_size_after' = particle_size'
       /\ SameArguments(previous, TheCall') => ret' = previous.ret]_vars

-----------------------------------------------------------------------------
(* The cell and its particle ids *)

\* C19: after any sequence of add_particle_id, remove_particle_id and
\* clear_particle_ids on a cell, status() is true exactly when
\* nparticles() > 0, and when clear_particle_ids has just returned the cell
\* is inactive with nparticles() = 0.
C19_ActiveIffParticles ==
  /\ status <=> nparticles > 0
  /\ \A t \in callers :
       thread[t].pc = "clear_done" => ~status /\ nparticles = 0

\* clear_particle_ids has just returned, on a cell that had all the particles
C19_Witness ==
  \E t \in callers :
    /\ thread[t].pc = "clear_done"
    /\ thread[t].cleared = MaxParticleId + 1

\* C20: a thread that is reading or writing the particle-id list of the cell
\* holds the mutex of the cell, so no two threads are inside the list
\* mutation of add_particle_id, remove_particle_id and clear_particle_ids at
\* once.
C20_CellMutex ==
  \A t \in callers :
    thread[t].pc \in Mutating =>
      /\ cell_mutex_ = t
      /\ \A u \in callers \ {t} : thread[u].pc \notin Mutating

C23_Phases(absorbing_boundary) ==
  <<"inject_particles", "scheme_initialise", "contact_initialise",
    "compute_nodal_kinematics", "compute_contact_forces",
    "precompute_stress_strain", "compute_forces">>
    \o (IF absorbing_boundary
        THEN <<"absorbing_boundary_properties",
               "nodal_absorbing_constraints">> ELSE <<>>)
    \o <<"compute_particle_kinematics", "postcompute_nodal_kinematics",
         "postcompute_stress_strain", "locate_particles", "write_outputs">>

C23_IsPhase(call) ==
  \E i \in 1 .. Len(C23_Phases(TRUE)) : C23_Phases(TRUE)[i] = call[1]

C23_Names(calls) == [i \in 1 .. Len(calls) |-> calls[i][1]]

C23_Iteration ==
  C23_Names(SelectSeq(SubSeq(solver.calls, solver.mark + 1,
                             Len(solver.calls)), C23_IsPhase))

C23_PhaseOrder ==
  solver.pc = "increment" =>
    LET phases == C23_Phases(solver.cfg.absorbing_boundary_) IN
    /\ Len(C23_Iteration) <= Len(phases)
    /\ C23_Iteration = SubSeq(phases, 1, Len(C23_Iteration))
    /\ solver.todo = <<>> => C23_Iteration = phases
    /\ solver.iterations > 1 =>
         solver.calls[solver.mark] = Called("write_outputs", solver.step_)

C23_Witness ==
  /\ solver.pc = "increment"
  /\ solver.todo = <<>>
  /\ solver.iterations = 2
  /\ solver.cfg.absorbing_boundary_
  /\ solver.cfg.graph_partitioning

\* C24: over a complete solve() that reaches its main loop at step s0 with
\* nsteps >= s0, write_outputs is called with s0 + 1 .. nsteps in increasing
\* order, each exactly once, after a single write_outputs(s0) exactly when
\* the run is not a successful resume; the loop makes nsteps - s0 iterations
\* and solve() returns.
C24_IsOutput(call) == call[1] = "write_outputs"

C24_Outputs ==
  LET outputs == SelectSeq(solver.calls, C24_IsOutput)
  IN  [i \in 1 .. Len(outputs) |-> outputs[i][2]]

C24_Expected ==
  (IF solver.cfg.resume /\ solver.check_resume THEN <<>> ELSE <<solver.s0>>)
    \o [i \in 1 .. solver.cfg.nsteps_ - solver.s0 |-> solver.s0 + i]

C24_WriteOutputs ==
  solver.pc \in {"loop", "increment", "return", "returned"}
    /\ solver.cfg.nsteps_ >= solver.s0 =>
      /\ Len(C24_Outputs) <= Len(C24_Expected)
      /\ C24_Outputs = SubSeq(C24_Expected, 1, Len(C24_Outputs))
      /\ solver.iterations <= solver.cfg.nsteps_ - solver.s0
      /\ solver.pc \in {"return", "returned"} =>
           /\ C24_Outputs = C24_Expected
           /\ solver.iterations = solver.cfg.nsteps_ - solver.s0

C24_Witness ==
  /\ solver.pc = "returned"
  /\ solver.cfg.resume /\ solver.check_resume
  /\ solver.s0 = 1
  /\ solver.cfg.nsteps_ = MaxSteps
  /\ solver.iterations = MaxSteps - 1

\* C25: when a resume is requested and checkpoint_resume() fails, solve()
\* goes on as a run without resume does (initialise_particles, compute_mass,
\* mpi_domain_decompose(true), the initial outputs), and the repartition
\* flag chooses between mpi_domain_decompose(false) and
\* resume_domain_cell_ranks only when the resume has succeeded.
C25_Fresh ==
  <<Called("initialise_materials", 0), Called("initialise_mesh", 0),
    Called("initialise_particles", 0), Called("compute_mass", 0),
    Called("mpi_domain_decompose", 1)>>
    \o (IF solver.cfg.interface \/ solver.cfg.absorbing_boundary_
        THEN <<Called("create_nodal_properties", 0)>> ELSE <<>>)
    \o <<Called("initialise_loads", 0), Called("write_outputs", solver.s0)>>

C25_NotCheckpoint(call) == call[1] # "checkpoint_resume"

C25_Has(call) == \E i \in 1 .. Len(solver.calls) : solver.calls[i] = call

C25_FailedResume ==
  solver.pc = "loop" /\ solver.iterations = 0 /\ solver.todo = <<>> =>
    /\ ~(solver.cfg.resume /\ solver.check_resume) =>
         /\ SelectSeq(solver.calls, C25_NotCheckpoint) = C25_Fresh
         /\ C25_Has(Called("checkpoint_resume", 0)) = solver.cfg.resume
    /\ solver.cfg.resume /\ solver.check_resume =>
         /\ C25_Has(Called("mpi_domain_decompose", 0))
               = solver.cfg.repartition
         /\ C25_Has(Called("resume_domain_cell_ranks", 0))
               = ~solver.cfg.repartition
         /\ ~C25_Has(Called("mpi_domain_decompose", 1))

C25_Witness ==
  /\ solver.pc = "loop" /\ solver.iterations = 0 /\ solver.todo = <<>>
  /\ solver.cfg.resume /\ ~solver.check_resume
  /\ solver.cfg.repartition

\* C27: laplace_matrix(xi_s, nc) is the sum over the points of xi_s of
\* dn_dx * dn_dx^T, dn_dx being the physical gradient dn_dx returns at the
\* point, for every cell with non-singular Jacobians, sheared cells with a
\* Jacobian that is not symmetric included.
C27_DnDx(k) ==
  (CHOOSE r \in dn_dx(element, xi[k], nodal_coordinates) : TRUE).ret

RECURSIVE C27_Sum(_)
C27_Sum(from) ==
  IF from > Len(xi) THEN Zero(nfunctions(element), nfunctions(element))
  ELSE With2(C27_DnDx(from), C27_Sum(from + 1), LAMBDA g, rest :
         MAdd(Times(g, Transpose(g)), rest))

C27_LaplaceOfDnDx ==
  (/\ op = "laplace_matrix"
   /\ ~Mismatched(nodal_coordinates)
   /\ \A k \in 1 .. Len(xi) : IsFinite(C27_DnDx(k)))
    => ret = C27_Sum(1)

\* C27 where the Jacobian of the cell is symmetric
C27_SymmetricJacobian ==
  (/\ op = "laplace_matrix"
   /\ ~Mismatched(nodal_coordinates)
   /\ \A k \in 1 .. Len(xi) :
        /\ IsFinite(C27_DnDx(k))
        /\ jacobian(element, xi[k], nodal_coordinates).ret
             = Transpose(jacobian(element, xi[k], nodal_coordinates).ret))
    => ret = C27_Sum(1)

\* C28: for the 8-node and the 20-node hexahedron, shapefn evaluated at row j
\* of unit_cell_coordinates() is 1 at entry j and 0 at every other entry, and
\* rows 0 .. 7 of the 20-node table are the rows of the 8-node table.
C28_NodalInterpolation ==
  /\ \A j \in 0 .. 7 : unit_cell_coordinates20[j] = unit_cell_coordinates8[j]
  /\ (op = "shapefn" /\ element \in Hexahedra) =>
       \A j \in 0 .. nfunctions(element) - 1 :
         xi = unit_cell_coordinates(element)[j] =>
           ret = [n \in 0 .. nfunctions(element) - 1 |->
                    IF n = j THEN I(1) ELSE I(0)]

C28_Witness ==
  /\ op = "shapefn"
  /\ element = "hex20"
  /\ xi = unit_cell_coordinates20[17]
  /\ ret[17] = I(1)

\* C29: face_indices(f) of a hexahedron returns a face for f in 0 .. 5 and
\* fails for every other f; the nodes of a face all lie on one face plane of
\* the unit cell and the six faces lie on six different planes; the first
\* four entries of a face of the 20-node element are the corners of that
\* face of the 8-node element, in the same order, and its mid-side node
\* k + 4 lies on the edge between corner k and corner (k + 1) mod 4.
C29_OnPlane(e, face, j, side) ==
  \A k \in DOMAIN face : unit_cell_coordinates(e)[face[k]][j] = I(side)

C29_Planes(e, face) ==
  {p \in (0 .. 2) \X {0 - 1, 1} : C29_OnPlane(e, face, p[1], p[2])}

C29_Middle(a, b) == [j \in 0 .. 2 |-> c05 ** (a[j] (+) b[j])]

C29_FaceIndices ==
  (op = "face_indices" /\ element \in Hexahedra) =>
    LET f == xi[0]
        nodes == unit_cell_coordinates(element)
    IN  /\ (exception = <<>>) = (f \in 0 .. nfaces - 1)
        /\ f \in 0 .. nfaces - 1 =>
             /\ Rows(ret) = IF element = "hex8" THEN 4 ELSE 8
             /\ Cardinality(C29_Planes(element, ret)) = 1
             /\ \A g \in 0 .. nfaces - 1 :
                  g # f => C29_Planes(element, face_indices(element, g).ret)
                             # C29_Planes(element, ret)
             /\ \A k \in 0 .. 3 : ret[k] = face_indices("hex8", f).ret[k]
             /\ element = "hex20" =>
                  \A k \in 0 .. 3 :
                    nodes[ret[k + 4]]
                      = C29_Middle(nodes[ret[k]], nodes[ret[(k + 1) % 4]])

C29_Witness ==
  /\ op = "face_indices"
  /\ element = "hex20"
  /\ xi[0] = 2
  /\ ret[5] = 14

\* C30: after any sequence of initialise_bspline_connectivity_properties
\* calls the members of the B-spline element are those of the most recent
\* call; shapefn returns one entry and grad_shapefn one row for each node of
\* that call, and they take the fallback to the 8-node hexahedron exactly
\* when that call supplied 8 nodes.
C30_MostRecent ==
  (element = "bspline" /\ assigned.kept /\ assigned.calls # <<>>) =>
    LET c == assigned.calls[Len(assigned.calls)]
        n == Rows(c.nodal_coordinates)
        d == c.nodal_coordinates[1][0] (-) c.nodal_coordinates[0][0]
    IN  /\ nconnectivity_ = n
        /\ nodal_coordinates_ = c.nodal_coordinates
        /\ node_type_ = Mat(c.nodal_properties)
        /\ spacing_length_ = IF RLess(d, I(0)) THEN RNeg(d) ELSE d
        /\ op = "shapefn" =>
             /\ Rows(ret) = n
             /\ n = 8 => ret = shapefn8(xi)
             /\ n # 8 => ret = bspline_shapefn_always(xi)
        /\ op = "grad_shapefn" =>
             /\ Rows(ret) = n
             /\ Cols(ret) = 3
             /\ (n = 8) = (ret = grad_shapefn8(xi))

C30_Witness ==
  /\ element = "bspline"
  /\ assigned.kept
  /\ Len(assigned.calls) = 2
  /\ Rows(assigned.calls[1].nodal_coordinates) = 8
  /\ Rows(assigned.calls[2].nodal_coordinates) = 36
  /\ op = "shapefn"
  /\ Rows(ret) = 36

=============================================================================
